---- MODULE Spec2Model ----
(***************************************************************************)
(* Model of the SOOMFON controller backend (src-tauri):                    *)
(*   - the action engine (actions/engine.rs) and the action commands that  *)
(*     share one engine behind a mutex (commands/actions.rs);              *)
(*   - the HID connection manager (hid/manager.rs);                        *)
(*   - the device commands and the polling thread (commands/device.rs);    *)
(*   - the packet codec (hid/packets.rs, hid/types.rs).                    *)
(* The specifications are defined over the same variables:                 *)
(*   SpecEngine   the ActionEngine API called directly,                    *)
(*   SpecCmd      concurrent execute_action / cancel_action commands,      *)
(*   SpecMgr      the HidManager API,                                      *)
(*   SpecDev      the device commands running beside the polling threads,  *)
(*   SpecDevFair  SpecDev with the polling threads scheduled fairly,       *)
(*   SpecCodec    the pure packet functions applied to bounded inputs,     *)
(*   SpecBinder   the EventBinder API (actions/event_binder.rs).           *)
(***************************************************************************)
EXTENDS Integers, Sequences, FiniteSets, TLC

VARIABLES
    history,        \* ActionEngine.history: Vec<HistoryEntry>
    is_executing,   \* ActionEngine.is_executing
    cells,          \* the AtomicBool cells behind Arc: cell id -> BOOLEAN
    token_of,       \* token clones held outside the engine: holder -> cell id or NoToken
    fut,            \* the live future of ActionEngine::execute (NoFuture or the action it runs)
    lastCall,       \* the engine or token method that was called last
    ret,            \* what it returned (for execute: Pending until it returns, Dropped if its future was dropped)
    recLog,         \* every entry recorded since the history was last empty by construction or clear
    cpc,            \* execute_action command: position of each caller
    cact,           \* execute_action command: the caller's action argument
    cres,           \* execute_action command: the caller's local `result`
    cret,           \* execute_action command: the value last returned to the caller
    state,          \* HidManager.state
    device_info,    \* HidManager.device_info (NoInfo for Option::None)
    context,        \* HidManager.context
    handle,         \* HidManager.handle
    initialized,    \* HidManager.initialized
    lastOp,         \* the HidManager method that ran last
    lastResult,     \* what that method returned
    io,             \* the USB operations that method performed, in order
    pre,            \* the HidManager fields when that method was entered
    failed,         \* a connect() or initialize() has failed since the last disconnect()
    handed_off,     \* take_polling_handle() has succeeded and no reopen_for_commands() has since
    POLLING_ACTIVE, \* the global AtomicBool of commands/device.rs
    cd,             \* connect_device: position of the command
    dd,             \* disconnect_device: position of the command
    wc,             \* set_brightness / clear_button: the command in flight while it holds the manager lock
    ppc,            \* polling thread -> its position
    released,       \* polling thread -> number of release_interface calls it has made
    lastRead,       \* the last read made in a polling loop: the thread and the outcome
    emitted,        \* the notification the polling path emitted last
    pending,        \* the decoded reads whose notification is still to be emitted, in read order
    cin,            \* packet codec: the function applied and its input
    cout,           \* packet codec: its output
    profile,        \* EventBinder.profile (NoProfile for Option::None)
    bound,          \* the bind_profile / unbind call made last on the binder
    resolved        \* the get_action_for_event call made last since the binding changed

engineVars == <<history, is_executing, cells, token_of, fut, lastCall, ret, recLog>>
cmdVars    == <<cpc, cact, cres, cret>>
mgrVars    == <<state, device_info, context, handle, initialized, lastOp, lastResult, io, pre, failed, handed_off>>
devVars    == <<POLLING_ACTIVE, cd, dd, wc, ppc, released, lastRead, emitted, pending>>
codecVars  == <<cin, cout>>
binderVars == <<profile, bound, resolved>>
vars       == <<engineVars, cmdVars, mgrVars, devVars, codecVars, binderVars>>

None == "None"

Min(a, b) == IF a <= b THEN a ELSE b

(***************************************************************************)
(* Bounds                                                                  *)
(***************************************************************************)
\* recordings allowed since the history was last empty
MaxRecorded == 105
\* the first MaxVaried recordings draw their inputs from the full input
\* sets, the later ones use the default input
MaxVaried == 1
\* recordings the execute_action command may make since the history was last empty
MaxCmdRecorded == 3
\* holders of a cancellation-token clone
NumHolders == 1
\* concurrent callers of the execute_action command
NumCallers == 2

Holders == 1..NumHolders
Callers == 1..NumCallers

(***************************************************************************)
(* Action engine: data                                                     *)
(***************************************************************************)
\* actions/types.rs: enum Action (the payload is opaque to the engine)
ActionVariants ==
    {"Keyboard", "Media", "Launch", "Script", "Http", "System", "Text",
     "Profile", "HomeAssistant", "NodeRed"}

\* the variants the model feeds to the engine
ActionSet == {"Keyboard", "Script"}
DefaultAction == "Keyboard"

\* ActionEngine::get_action_type_name
get_action_type_name(action) ==
    CASE action = "Keyboard"      -> "keyboard"
      [] action = "Media"         -> "media"
      [] action = "Launch"        -> "launch"
      [] action = "Script"        -> "script"
      [] action = "Http"          -> "http"
      [] action = "System"        -> "system"
      [] action = "Text"          -> "text"
      [] action = "Profile"       -> "profile"
      [] action = "HomeAssistant" -> "homeAssistant"
      [] action = "NodeRed"       -> "nodeRed"
      [] action = "Workspace"     -> "workspace"

\* ActionResult::success
ActionResult_success(duration_ms) ==
    [success |-> TRUE, message |-> None, error |-> None, duration_ms |-> duration_ms]

\* ActionResult::failure
ActionResult_failure(error, duration_ms) ==
    [success |-> FALSE, message |-> None, error |-> error, duration_ms |-> duration_ms]

BusyError == "Another action is currently executing"

\* what a handler body hands back; the duration_ms it reports (7 here) is
\* replaced by the one its caller measures
HandlerResults ==
    {ActionResult_success(7), ActionResult_failure("handler failed", 7)}
DefaultResult == ActionResult_success(7)

\* start.elapsed().as_millis(): what the caller of a handler measures
Durations == {3}

\* input narrowing that keeps a history of max_history entries explorable
Vary == Len(recLog) < MaxVaried
ActionInputs   == IF Vary THEN ActionSet ELSE {DefaultAction}
ResultInputs   == IF Vary THEN HandlerResults ELSE {DefaultResult}

\* ActionEngine::new: max_history
max_history == 100

\* HistoryEntry (the wall-clock timestamp is not modelled)
HistoryEntry(action, success, duration_ms, error) ==
    [action_type |-> get_action_type_name(action), success |-> success,
     duration_ms |-> duration_ms, error |-> error]

\* self.history.push(entry); if self.history.len() > self.max_history { self.history.remove(0); }
PushEvictNewest(h, entry) ==
    LET pushed == Append(h, entry)
    IN  IF Len(pushed) > max_history THEN SubSeq(pushed, 1, Len(pushed) - 1) ELSE pushed

PushNoEvict(h, entry) == Append(h, entry)

PushHistory(h, entry) ==
    LET pushed == Append(h, entry)
    IN  IF Len(pushed) > max_history THEN Tail(pushed) ELSE pushed

(***************************************************************************)
(* Cancellation token: an Arc<AtomicBool>.  Cell 0 is the cell allocated   *)
(* by CancellationToken::new() in ActionEngine::new(); the engine's token  *)
(* refers to it for the engine's whole life.                               *)
(***************************************************************************)
EngineCell == 0
Cells == 0..NumHolders
NoToken == 0 - 1

\* CancellationToken::is_cancelled
is_cancelled(cell) == cells[cell]

\* CancellationToken::clone (derived Clone on Arc: the clone refers to the same cell)
CloneByValue(cell, h) == h
CloneCell(cell, h) == cell


(***************************************************************************)
(* Action engine: operations (SpecEngine).  execute takes &mut self and    *)
(* its future keeps that borrow until it completes or is dropped, so no    *)
(* other engine method runs while fut is live; a token clone is owned by   *)
(* its holder and may be used at any time.                                 *)
(***************************************************************************)
NoFuture == "NoFuture"

\* the outcome of a call as its caller sees it: st says whether a value came
\* back, val is the ActionResult when one did
NoResult == [success |-> FALSE, message |-> None, error |-> None, duration_ms |-> 0]
Returned(result) == [st |-> "Returned", val |-> result]
NoCall  == [st |-> "NoCall", val |-> NoResult]
Pending == [st |-> "Pending", val |-> NoResult]
Dropped == [st |-> "Dropped", val |-> NoResult]
Unit    == [st |-> "Unit", val |-> NoResult]

\* ActionEngine::execute up to the handler's .await: the guard check, then
\* guard set, token reset and dispatch
execute_begin_unguarded(action) ==
    /\ fut = NoFuture
    /\ lastCall' = "execute"
    /\ is_executing' = TRUE
    /\ cells' = [cells EXCEPT ![EngineCell] = FALSE]
    /\ fut' = action
    /\ ret' = Pending
    /\ UNCHANGED <<history, token_of, recLog>>
    /\ UNCHANGED <<cmdVars, mgrVars, devVars, codecVars, binderVars>>

execute_begin_keeps_token(action) ==
    /\ fut = NoFuture
    /\ lastCall' = "execute"
    /\ IF is_executing
       THEN /\ ret' = Returned(ActionResult_failure(BusyError, 0))
            /\ UNCHANGED <<history, is_executing, cells, token_of, fut, recLog>>
       ELSE /\ is_executing' = TRUE
            /\ fut' = action
            /\ ret' = Pending
            /\ UNCHANGED <<history, cells, token_of, recLog>>
    /\ UNCHANGED <<cmdVars, mgrVars, devVars, codecVars, binderVars>>

execute_begin(action) ==
    /\ fut = NoFuture
    /\ lastCall' = "execute"
    /\ IF is_executing
       THEN /\ ret' = Returned(ActionResult_failure(BusyError, 0))
            /\ UNCHANGED <<history, is_executing, cells, token_of, fut, recLog>>
       ELSE /\ is_executing' = TRUE
            /\ cells' = [cells EXCEPT ![EngineCell] = FALSE]
            /\ fut' = action
            /\ ret' = Pending
            /\ UNCHANGED <<history, token_of, recLog>>
    /\ UNCHANGED <<cmdVars, mgrVars, devVars, codecVars, binderVars>>

\* ActionResult { duration_ms: duration, ..result }
with_handler_duration(result, duration) == result
with_duration(result, duration) == [result EXCEPT !.duration_ms = duration]

\* ActionEngine::execute after the handler returned `result`: measure, record,
\* clear the guard, return the result with the measured duration
execute_finish(result, duration) ==
    /\ fut # NoFuture
    /\ Len(recLog) < MaxRecorded
    /\ LET entry == HistoryEntry(fut, result.success, duration, result.error)
       IN  /\ history' = PushHistory(history, entry)
           /\ recLog' = Append(recLog, entry)
    /\ is_executing' = FALSE
    /\ ret' = Returned(with_duration(result, duration))
    /\ fut' = NoFuture
    /\ UNCHANGED <<cells, token_of, lastCall, cmdVars, mgrVars, devVars, codecVars, binderVars>>

\* the caller drops the future of execute at the handler's .await (a timeout or
\* select around it): nothing after the await runs
execute_drop ==
    /\ fut # NoFuture
    /\ fut' = NoFuture
    /\ ret' = Dropped
    /\ UNCHANGED <<history, is_executing, cells, token_of, lastCall, recLog, cmdVars, mgrVars, devVars, codecVars, binderVars>>

\* ActionEngine::cancel, on the engine's fields
engine_cancel ==
    /\ lastCall' = "cancel"
    /\ ret' = Unit
    /\ cells' = [cells EXCEPT ![EngineCell] = TRUE]
    /\ is_executing' = FALSE

\* ActionEngine::cancel
cancel ==
    /\ fut = NoFuture
    /\ engine_cancel
    /\ UNCHANGED <<history, token_of, fut, recLog, cmdVars, mgrVars, devVars, codecVars, binderVars>>

\* ActionEngine::record_execution, on the engine's fields
engine_record_execution_when_idle(action, result) ==
    LET entry == HistoryEntry(action, result.success, result.duration_ms, result.error)
    IN  /\ lastCall' = "record_execution"
        /\ ret' = Unit
        /\ history' = IF is_executing THEN history ELSE PushHistory(history, entry)
        /\ recLog' = IF is_executing THEN recLog ELSE Append(recLog, entry)
engine_record_execution(action, result) ==
    LET entry == HistoryEntry(action, result.success, result.duration_ms, result.error)
    IN  /\ lastCall' = "record_execution"
        /\ ret' = Unit
        /\ history' = PushHistory(history, entry)
        /\ recLog' = Append(recLog, entry)

\* ActionEngine::record_execution
record_execution(action, result) ==
    /\ fut = NoFuture
    /\ Len(recLog) < MaxRecorded
    /\ engine_record_execution(action, result)
    /\ UNCHANGED <<is_executing, cells, token_of, fut, cmdVars, mgrVars, devVars, codecVars, binderVars>>

\* ActionEngine::clear_history
clear_history ==
    /\ fut = NoFuture
    /\ lastCall' = "clear_history"
    /\ ret' = Unit
    /\ history' = <<>>
    /\ recLog' = <<>>
    /\ UNCHANGED <<is_executing, cells, token_of, fut, cmdVars, mgrVars, devVars, codecVars, binderVars>>

\* ActionEngine::get_cancellation_token, the clone going to holder h
get_cancellation_token(h) ==
    /\ fut = NoFuture
    /\ token_of[h] = NoToken
    /\ lastCall' = "get_cancellation_token"
    /\ ret' = Unit
    /\ LET cell == CloneCell(EngineCell, h)
       IN  /\ token_of' = [token_of EXCEPT ![h] = cell]
           /\ cells' = [cells EXCEPT ![cell] = cells[EngineCell]]
    /\ UNCHANGED <<history, is_executing, fut, recLog, cmdVars, mgrVars, devVars, codecVars, binderVars>>

\* CancellationToken::cancel on holder h's clone
token_cancel(h) ==
    /\ token_of[h] # NoToken
    /\ lastCall' = "token_cancel"
    /\ ret' = Unit
    /\ cells' = [cells EXCEPT ![token_of[h]] = TRUE]
    /\ UNCHANGED <<history, is_executing, token_of, fut, recLog, cmdVars, mgrVars, devVars, codecVars, binderVars>>

\* CancellationToken::reset on holder h's clone
token_reset(h) ==
    /\ token_of[h] # NoToken
    /\ lastCall' = "token_reset"
    /\ ret' = Unit
    /\ cells' = [cells EXCEPT ![token_of[h]] = FALSE]
    /\ UNCHANGED <<history, is_executing, token_of, fut, recLog, cmdVars, mgrVars, devVars, codecVars, binderVars>>

\* holder h drops its clone
token_drop(h) ==
    /\ token_of[h] # NoToken
    /\ lastCall' = "token_drop"
    /\ ret' = Unit
    /\ token_of' = [token_of EXCEPT ![h] = NoToken]
    /\ UNCHANGED <<history, is_executing, cells, fut, recLog, cmdVars, mgrVars, devVars, codecVars, binderVars>>

(***************************************************************************)
(* Action commands (SpecCmd): Tauri runs each invocation of an async       *)
(* command as its own task; the engine is shared as Arc<Mutex<_>> and each *)
(* lock scope of a command is one step.                                    *)
(***************************************************************************)
\* execute_action, first lock scope: the is_executing check; then the
\* integration settings are read and the handler is started
cmd_execute_begin(c, action) ==
    /\ cpc[c] = "idle"
    /\ IF is_executing
       THEN /\ cret' = [cret EXCEPT ![c] = Returned(ActionResult_failure(BusyError, 0))]
            /\ UNCHANGED <<cpc, cact>>
       ELSE /\ cpc' = [cpc EXCEPT ![c] = "handler"]
            /\ cact' = [cact EXCEPT ![c] = action]
            /\ cret' = [cret EXCEPT ![c] = Pending]
    /\ UNCHANGED <<cres, engineVars, mgrVars, devVars, codecVars, binderVars>>

\* execute_action_with_config returns: the handler's result with the measured duration
cmd_handler_done(c, result, duration) ==
    /\ cpc[c] = "handler"
    /\ cres' = [cres EXCEPT ![c] = [result EXCEPT !.duration_ms = duration]]
    /\ cpc' = [cpc EXCEPT ![c] = "record"]
    /\ UNCHANGED <<cact, cret, engineVars, mgrVars, devVars, codecVars, binderVars>>

\* execute_action, second lock scope: record_execution, then return the result
cmd_record(c) ==
    /\ cpc[c] = "record"
    /\ Len(recLog) < MaxCmdRecorded
    /\ engine_record_execution(cact[c], cres[c])
    /\ cret' = [cret EXCEPT ![c] = Returned(cres[c])]
    /\ cres' = [cres EXCEPT ![c] = NoResult]
    /\ cact' = [cact EXCEPT ![c] = None]
    /\ cpc' = [cpc EXCEPT ![c] = "idle"]
    /\ UNCHANGED <<is_executing, cells, token_of, fut, mgrVars, devVars, codecVars, binderVars>>

\* cancel_action
cancel_action ==
    /\ engine_cancel
    /\ UNCHANGED <<history, token_of, fut, recLog, cmdVars, mgrVars, devVars, codecVars, binderVars>>

(***************************************************************************)
(* HID manager: data                                                       *)
(***************************************************************************)
\* drain_responses: for _ in 0..5
DrainReads == 5
\* packets the device may have pending when a drain starts
MaxAvail == 6

\* DeviceInfo as Option: present is FALSE for None
NoInfo == [present |-> FALSE, path |-> None, firmware_version |-> None]
DeviceInfo(path, firmware_version) ==
    [present |-> TRUE, path |-> path, firmware_version |-> firmware_version]
DevicePath == "1:2:3"
Firmware == "V1.0"

\* HidResult: Ok(val) or Err(err); val is a DeviceInfo, NoInfo standing for
\* () and for values the model does not track
Ok(val) == [ok |-> TRUE, val |-> val, err |-> None]
Err(err) == [ok |-> FALSE, val |-> NoInfo, err |-> err]
\* initialize returns the firmware string: carried in the firmware_version field
OkFirmware(version) == Ok([present |-> FALSE, path |-> None, firmware_version |-> version])

\* a command packet, by the bytes that tell the commands apart: the mnemonic
\* at offset 5, the "DC" suffix at offset 9 and the parameter byte at offset 10
Packet(mnemonic, suffix, param) == [mnemonic |-> mnemonic, suffix |-> suffix, param |-> param]
NoPacket == Packet(None, None, 0)
build_display_init_packet == Packet("DIS", None, 0)
build_brightness_packet_unclamped(level) == Packet("LIG", None, level)
build_brightness_packet(level) == Packet("LIG", None, Min(level, 100))
build_stp_packet == Packet("STP", None, 0)
build_clear_screens_packet == Packet("CLE", None, 0)
build_clear_lcd_packet == Packet("CLE", "DC", 0)
build_clear_buttons_packet == Packet("CLB", "DC", 0)
build_halt_packet == Packet("HAH", None, 0)

\* one USB operation performed by a manager method, and whether it succeeded
IO(op, packet, ok) == [op |-> op, packet |-> packet, ok |-> ok]

\* the manager's fields, and whether a failure is outstanding
Fields ==
    [state |-> state, device_info |-> device_info, context |-> context,
     handle |-> handle, initialized |-> initialized, failed |-> failed]

\* HidManager::is_connected
is_connected(st) == st = "Connected" \/ st = "Initialized"

\* HidManager::is_initialized
is_initialized == initialized /\ state = "Initialized"

\* what a method leaves behind for its caller
Return(op, result, trace) ==
    /\ lastOp' = op
    /\ lastResult' = result
    /\ io' = trace
    /\ pre' = Fields
    /\ failed' = IF op = "disconnect" THEN FALSE
                 ELSE IF op \in {"connect", "initialize"} /\ ~result.ok THEN TRUE
                 ELSE failed
    /\ handed_off' = IF op = "take_polling_handle" /\ result.ok THEN TRUE
                     ELSE IF op = "reopen_for_commands" /\ result.ok THEN FALSE
                     ELSE handed_off

(***************************************************************************)
(* HID manager: operations (SpecMgr).  Every method takes &self or         *)
(* &mut self and blocks until it returns, so each call is one step; what   *)
(* the USB stack answers is the environment's choice.                      *)
(***************************************************************************)
\* HidManager::send_command with handle h; wok: the interrupt write succeeds
send_command(h, packet, wok) ==
    IF h = None THEN [ok |-> FALSE, err |-> "NotConnected", io |-> <<>>]
    ELSE IF wok THEN [ok |-> TRUE, err |-> None,
                      io |-> <<IO("write_interrupt", packet, TRUE)>>]
    ELSE [ok |-> FALSE, err |-> "WriteFailed",
          io |-> <<IO("write_interrupt", packet, FALSE)>>]

\* n reads that return data
RECURSIVE DataReads(_)
DataReads(n) ==
    IF n = 0 THEN <<>> ELSE <<IO("read_interrupt", NoPacket, TRUE)>> \o DataReads(n - 1)

\* a drain that reads until a read returns no data, however long that takes
drain_responses_until_empty(h, avail) ==
    IF h = None THEN <<>>
    ELSE DataReads(avail) \o <<IO("read_interrupt", NoPacket, FALSE)>>
\* HidManager::drain_responses with handle h while the device has `avail`
\* packets pending: reads until one returns no data, DrainReads reads at most
drain_responses(h, avail) ==
    IF h = None THEN <<>>
    ELSE IF avail >= DrainReads THEN DataReads(DrainReads)
    ELSE DataReads(avail) \o <<IO("read_interrupt", NoPacket, FALSE)>>

\* HidManager::initialize, steps 1 to 4
InitSequence ==
    <<build_display_init_packet, build_brightness_packet(50),
      build_stp_packet, build_clear_screens_packet>>

\* the command/sleep/drain steps of initialize from step i on; the write of
\* step failAt fails (0: none does), avail[i] packets are pending after step i
RECURSIVE InitSteps(_, _, _, _)
InitSteps(h, i, failAt, avail) ==
    IF i > Len(InitSequence) THEN [ok |-> TRUE, err |-> None, io |-> <<>>]
    ELSE LET w == send_command(h, InitSequence[i], i # failAt)
         IN  IF ~w.ok THEN w
             ELSE LET rest == InitSteps(h, i + 1, failAt, avail)
                  IN  [rest EXCEPT !.io = w.io \o drain_responses(h, avail[i]) \o @]

\* HidManager::enumerate_devices; ctxOk: Context::new succeeds, listOk:
\* the device list can be read
enumerate_devices(ctxOk, listOk) ==
    /\ IF context = None /\ ~ctxOk
       THEN /\ Return("enumerate_devices", Err("OpenFailed"), <<IO("Context::new", NoPacket, FALSE)>>)
            /\ UNCHANGED context
       ELSE /\ context' = "Some"
            /\ Return("enumerate_devices",
                      IF listOk THEN Ok(NoInfo) ELSE Err("OpenFailed"),
                      (IF context = None THEN <<IO("Context::new", NoPacket, TRUE)>> ELSE <<>>)
                        \o <<IO("devices", NoPacket, listOk)>>)
    /\ UNCHANGED <<state, device_info, handle, initialized, engineVars, cmdVars, codecVars, binderVars>>

\* the USB steps of connect and reopen_for_commands up to the claim, `step`
\* being the first that fails ("none": all succeed)
OpenOutcomes == {"devices", "find", "open", "claim_interface", "none"}
OpenTrace(step) ==
    CASE step = "devices" -> <<IO("devices", NoPacket, FALSE)>>
      [] step = "find"    -> <<IO("devices", NoPacket, TRUE)>>
      [] step = "open"    -> <<IO("devices", NoPacket, TRUE), IO("open", NoPacket, FALSE)>>
      [] step = "claim_interface" ->
            <<IO("devices", NoPacket, TRUE), IO("open", NoPacket, TRUE),
              IO("claim_interface", NoPacket, FALSE)>>
      [] step = "none" ->
            <<IO("devices", NoPacket, TRUE), IO("open", NoPacket, TRUE),
              IO("claim_interface", NoPacket, TRUE)>>
OpenError(step) ==
    CASE step = "devices" -> "OpenFailed"
      [] step = "find"    -> "DeviceNotFound"
      [] step = "open"    -> "OpenFailed"
      [] step = "claim_interface" -> "ClaimFailed"
      [] step = "none"    -> None

\* HidManager::connect, the early return: already connected with cached info
connect_never_cached == FALSE
connect_cached == is_connected(state) /\ device_info.present

\* HidManager::connect; ctxOk: Context::new succeeds; step: see OpenOutcomes
connect(ctxOk, step) ==
    /\ IF connect_cached
       THEN /\ Return("connect", Ok(device_info), <<>>)
            /\ UNCHANGED <<state, device_info, context, handle, initialized>>
       ELSE IF ~ctxOk
       THEN /\ state' = "Connecting"
            /\ Return("connect", Err("OpenFailed"), <<IO("Context::new", NoPacket, FALSE)>>)
            /\ UNCHANGED <<device_info, context, handle, initialized>>
       ELSE IF step # "none"
       THEN /\ state' = "Connecting"
            /\ Return("connect", Err(OpenError(step)),
                      <<IO("Context::new", NoPacket, TRUE)>> \o OpenTrace(step))
            /\ UNCHANGED <<device_info, context, handle, initialized>>
       ELSE /\ context' = "Some"
            /\ handle' = "Some"
            /\ device_info' = DeviceInfo(DevicePath, None)
            /\ state' = "Connected"
            /\ initialized' = FALSE
            /\ Return("connect", Ok(DeviceInfo(DevicePath, None)),
                      <<IO("Context::new", NoPacket, TRUE)>> \o OpenTrace(step))
    /\ UNCHANGED <<engineVars, cmdVars, codecVars, binderVars>>

\* HidManager::initialize, the two early returns with NotConnected
initialize_rejects_without_handle == handle = None
initialize_rejects == ~is_connected(state) \/ handle = None

\* how the firmware version is obtained: through hidapi, through the rusb
\* control read that follows a hidapi failure, or not at all
FirmwareOutcomes == {"hidapi", "rusb", "none"}
FirmwareTrace(fw) ==
    CASE fw = "hidapi" -> <<>>
      [] fw = "rusb"   -> <<IO("read_control", NoPacket, TRUE)>>
      [] fw = "none"   -> <<IO("read_control", NoPacket, FALSE)>>

\* HidManager::initialize; fw: see FirmwareOutcomes; failAt, avail: see InitSteps
initialize(fw, failAt, avail) ==
    /\ IF initialize_rejects
       THEN /\ Return("initialize", Err("NotConnected"), <<>>)
            /\ UNCHANGED <<state, device_info, context, handle, initialized>>
       ELSE LET run == InitSteps(handle, 1, failAt, avail)
            IN  /\ device_info' =
                      IF fw # "none" /\ device_info.present
                      THEN [device_info EXCEPT !.firmware_version = Firmware]
                      ELSE device_info
                /\ IF run.ok
                   THEN /\ initialized' = TRUE
                        /\ state' = "Initialized"
                        /\ Return("initialize",
                                  OkFirmware(IF fw = "none" THEN "" ELSE Firmware),
                                  FirmwareTrace(fw) \o run.io)
                   ELSE /\ Return("initialize", Err(run.err), FirmwareTrace(fw) \o run.io)
                        /\ UNCHANGED <<state, initialized>>
                /\ UNCHANGED <<context, handle>>
    /\ UNCHANGED <<engineVars, cmdVars, codecVars, binderVars>>

\* HidManager::shutdown, the three sends; wok[i]: the i-th write succeeds
ShutdownSequence ==
    <<build_clear_lcd_packet, build_clear_buttons_packet, build_halt_packet>>
ShutdownTrace(h, wok) ==
    send_command(h, ShutdownSequence[1], wok[1]).io
      \o send_command(h, ShutdownSequence[2], wok[2]).io
      \o send_command(h, ShutdownSequence[3], wok[3]).io

\* HidManager::shutdown
shutdown(wok) ==
    /\ IF ~is_connected(state)
       THEN Return("shutdown", Err("NotConnected"), <<>>)
       ELSE Return("shutdown", Ok(NoInfo), ShutdownTrace(handle, wok))
    /\ UNCHANGED <<state, device_info, context, handle, initialized, engineVars, cmdVars, codecVars, binderVars>>

\* HidManager::disconnect; relOk: release_interface succeeds
disconnect_keeps_context(wok, relOk) ==
    /\ Return("disconnect", Ok(NoInfo),
              (IF is_connected(state) THEN ShutdownTrace(handle, wok) ELSE <<>>)
                \o (IF handle # None
                    THEN <<IO("release_interface", NoPacket, relOk)>> ELSE <<>>))
    /\ handle' = None
    /\ device_info' = NoInfo
    /\ state' = "Disconnected"
    /\ initialized' = FALSE
    /\ UNCHANGED <<context, engineVars, cmdVars, codecVars, binderVars>>
disconnect_keeps_initialized(wok, relOk) ==
    /\ Return("disconnect", Ok(NoInfo),
              (IF is_connected(state) THEN ShutdownTrace(handle, wok) ELSE <<>>)
                \o (IF handle # None
                    THEN <<IO("release_interface", NoPacket, relOk)>> ELSE <<>>))
    /\ handle' = None
    /\ context' = None
    /\ device_info' = NoInfo
    /\ state' = "Disconnected"
    /\ UNCHANGED <<initialized, engineVars, cmdVars, codecVars, binderVars>>
disconnect(wok, relOk) ==
    /\ Return("disconnect", Ok(NoInfo),
              (IF is_connected(state) THEN ShutdownTrace(handle, wok) ELSE <<>>)
                \o (IF handle # None
                    THEN <<IO("release_interface", NoPacket, relOk)>> ELSE <<>>))
    /\ handle' = None
    /\ context' = None
    /\ device_info' = NoInfo
    /\ state' = "Disconnected"
    /\ initialized' = FALSE
    /\ UNCHANGED <<engineVars, cmdVars, codecVars, binderVars>>

\* HidManager::send_command called on the manager; wok: the interrupt write succeeds
send_command_call(packet, wok) ==
    /\ LET w == send_command(handle, packet, wok)
       IN  Return("send_command", IF w.ok THEN Ok(NoInfo) ELSE Err(w.err), w.io)
    /\ UNCHANGED <<state, device_info, context, handle, initialized, engineVars, cmdVars, codecVars, binderVars>>

\* HidManager::read_response (read_response_timeout with 100 ms); outcome: what
\* the interrupt read gives
ReadOutcomes == {"data", "zero", "timeout", "error"}
read_response(outcome) ==
    /\ IF handle = None
       THEN Return("read_response", Err("NotConnected"), <<>>)
       ELSE Return("read_response",
                   IF outcome = "error" THEN Err("ReadFailed") ELSE Ok(NoInfo),
                   <<IO("read_interrupt", NoPacket, outcome = "data")>>)
    /\ UNCHANGED <<state, device_info, context, handle, initialized, engineVars, cmdVars, codecVars, binderVars>>

\* HidManager::set_brightness; wok: the interrupt write succeeds
set_brightness(level, wok) ==
    /\ IF ~is_connected(state)
       THEN Return("set_brightness", Err("NotConnected"), <<>>)
       ELSE LET w == send_command(handle, build_brightness_packet(level), wok)
            IN  Return("set_brightness", IF w.ok THEN Ok(NoInfo) ELSE Err(w.err), w.io)
    /\ UNCHANGED <<state, device_info, context, handle, initialized, engineVars, cmdVars, codecVars, binderVars>>

\* SoomfonProtocol::clear_screen: sends the clear-LCD packet whatever the index
clear_screen(wok) ==
    /\ LET w == send_command(handle, build_clear_lcd_packet, wok)
       IN  Return("clear_screen", IF w.ok THEN Ok(NoInfo) ELSE Err(w.err), w.io)
    /\ UNCHANGED <<state, device_info, context, handle, initialized, engineVars, cmdVars, codecVars, binderVars>>

\* the handle-losing part of HidManager::take_polling_handle
take_keeps_handle == handle
take_leaves == None

\* HidManager::take_polling_handle
take_polling_handle ==
    /\ IF handle = None
       THEN /\ Return("take_polling_handle", Err("NotConnected"), <<>>)
            /\ UNCHANGED handle
       ELSE /\ handle' = take_leaves
            /\ Return("take_polling_handle", Ok(NoInfo), <<>>)
    /\ UNCHANGED <<state, device_info, context, initialized, engineVars, cmdVars, codecVars, binderVars>>

\* HidManager::reopen_for_commands; step: see OpenOutcomes
reopen_for_commands(step) ==
    /\ IF handle # None
       THEN /\ Return("reopen_for_commands", Ok(NoInfo), <<>>)
            /\ UNCHANGED handle
       ELSE IF context = None
       THEN /\ Return("reopen_for_commands", Err("NotConnected"), <<>>)
            /\ UNCHANGED handle
       ELSE IF step # "none"
       THEN /\ Return("reopen_for_commands", Err(OpenError(step)), OpenTrace(step))
            /\ UNCHANGED handle
       ELSE /\ handle' = "Some"
            /\ Return("reopen_for_commands", Ok(NoInfo), OpenTrace(step))
    /\ UNCHANGED <<state, device_info, context, initialized, engineVars, cmdVars, codecVars, binderVars>>

(***************************************************************************)
(* Packet codec (SpecCodec): parse_ack_packet, RawEvent::parse and the     *)
(* notification the polling thread builds from a decoded event.  Bytes are *)
(* integers 0..U8Max, a buffer is a sequence of bytes (offset k of the     *)
(* source is index k + 1).                                                 *)
(***************************************************************************)
U8Max == 255
\* longest buffer handed to parse_ack_packet
MaxBufLen == 12

\* b"ACK" and b"OK"
ACK_HEADER == <<65, 67, 75>>
ACK_OK == <<79, 75>>

\* Option<RawEvent>
NoRawEvent == [some |-> FALSE, event_id |-> 0, state |-> 0]
RawEvent(event_id, st) == [some |-> TRUE, event_id |-> event_id, state |-> st]

\* parse_ack_packet
parse_ack_packet_keeps_idle(data) ==
    IF Len(data) < 11 THEN NoRawEvent
    ELSE IF SubSeq(data, 1, 3) # ACK_HEADER THEN NoRawEvent
    ELSE IF SubSeq(data, 6, 7) # ACK_OK THEN NoRawEvent
    ELSE RawEvent(data[10], data[11])
parse_ack_packet(data) ==
    IF Len(data) < 11 THEN NoRawEvent
    ELSE IF SubSeq(data, 1, 3) # ACK_HEADER THEN NoRawEvent
    ELSE IF SubSeq(data, 6, 7) # ACK_OK THEN NoRawEvent
    ELSE LET event_id == data[10]
             st == data[11]
         IN  IF event_id = 0 THEN NoRawEvent ELSE RawEvent(event_id, st)

\* event ids and states of hid/types.rs
lcd_BUTTON_1 == 1
lcd_BUTTON_6 == 6
small_BUTTON_1 == 37
small_BUTTON_2 == 48
small_BUTTON_3 == 49
main_ROTATE_CCW == 80
main_ROTATE_CW == 81
main_PUSH == 53
side1_ROTATE_CCW == 144
side1_ROTATE_CW == 145
side1_PUSH == 51
side2_ROTATE_CCW == 96
side2_ROTATE_CW == 97
side2_PUSH == 52
PRESS == 1

\* Option<DeviceEvent>
NoEvent ==
    [some |-> FALSE, kind |-> None, index |-> 0, button_type |-> None,
     encoder_type |-> None, event_type |-> None]
Button(index, button_type, event_type) ==
    [some |-> TRUE, kind |-> "Button", index |-> index, button_type |-> button_type,
     encoder_type |-> None, event_type |-> event_type]
Encoder(encoder_type, event_type) ==
    [some |-> TRUE, kind |-> "Encoder", index |-> 0, button_type |-> None,
     encoder_type |-> encoder_type, event_type |-> event_type]

\* RawEvent::parse: `if is_press { Press } else { Release }`
press_or_long(st) == IF st = PRESS THEN "Press" ELSE IF st = 0 THEN "Release" ELSE "LongPress"
press_or_release(st) == IF st = PRESS THEN "Press" ELSE "Release"

\* RawEvent::parse: the small-button match, 0 - 1 for None
small_button_swapped(event_id) ==
    CASE event_id = small_BUTTON_1 -> 0
      [] event_id = small_BUTTON_2 -> 2
      [] event_id = small_BUTTON_3 -> 1
      [] OTHER -> 0 - 1
small_button_index(event_id) ==
    CASE event_id = small_BUTTON_1 -> 0
      [] event_id = small_BUTTON_2 -> 1
      [] event_id = small_BUTTON_3 -> 2
      [] OTHER -> 0 - 1

\* RawEvent::parse
RawEvent_parse(event_id, st) ==
    IF event_id >= lcd_BUTTON_1 /\ event_id <= lcd_BUTTON_6
    THEN Button(event_id - lcd_BUTTON_1, "Lcd", press_or_release(st))
    ELSE IF small_button_index(event_id) >= 0
    THEN Button(small_button_index(event_id), "Physical", press_or_release(st))
    ELSE CASE event_id = main_ROTATE_CCW  -> Encoder("Main", "RotateCCW")
           [] event_id = main_ROTATE_CW   -> Encoder("Main", "RotateCW")
           [] event_id = main_PUSH        -> Encoder("Main", press_or_release(st))
           [] event_id = side1_ROTATE_CCW -> Encoder("Side1", "RotateCCW")
           [] event_id = side1_ROTATE_CW  -> Encoder("Side1", "RotateCW")
           [] event_id = side1_PUSH       -> Encoder("Side1", press_or_release(st))
           [] event_id = side2_ROTATE_CCW -> Encoder("Side2", "RotateCCW")
           [] event_id = side2_ROTATE_CW  -> Encoder("Side2", "RotateCW")
           [] event_id = side2_PUSH       -> Encoder("Side2", press_or_release(st))
           [] OTHER -> NoEvent

\* the notification the polling thread emits for a decoded event: the event
\* name and the payload's type, index and delta (the timestamp is left out)
NoNotification == [name |-> None, type |-> None, index |-> 0, delta |-> 0]
Notification(event) ==
    IF ~event.some THEN NoNotification
    ELSE IF event.kind = "Button"
    THEN [name  |-> IF event.event_type = "Release"
                    THEN "device:buttonRelease" ELSE "device:buttonPress",
          type  |-> CASE event.event_type = "Press" -> "press"
                      [] event.event_type = "Release" -> "release"
                      [] event.event_type = "LongPress" -> "longPress",
          index |-> event.index,
          delta |-> 0]
    ELSE [name  |-> IF event.event_type \in {"RotateCW", "RotateCCW"}
                    THEN "device:encoderRotate" ELSE "device:encoderPress",
          type  |-> CASE event.event_type = "RotateCW" -> "rotateCW"
                      [] event.event_type = "RotateCCW" -> "rotateCCW"
                      [] event.event_type = "Press" -> "press"
                      [] event.event_type = "Release" -> "release"
                      [] event.event_type = "LongPress" -> "longPress",
          index |-> CASE event.encoder_type = "Main" -> 0
                      [] event.encoder_type = "Side1" -> 1
                      [] event.encoder_type = "Side2" -> 2,
          delta |-> CASE event.event_type = "RotateCW" -> 1
                      [] event.event_type = "RotateCCW" -> 0 - 1
                      [] OTHER -> 0]

\* what one read of the polling loop emits for the bytes it got
poll_emit(data) ==
    LET raw == parse_ack_packet(data)
    IN  IF raw.some THEN Notification(RawEvent_parse(raw.event_id, raw.state))
        ELSE NoNotification

(***************************************************************************)
(* The command packets byte by byte (hid/packets.rs).  A packet is the     *)
(* sequence of its CRT_PACKET_SIZE bytes; `packet[k] = b` of the source is *)
(* WriteAt(packet, k, <<b>>), `packet[a..b].copy_from_slice(s)` is         *)
(* WriteAt(packet, a, s).                                                  *)
(***************************************************************************)
CRT_PACKET_SIZE == 1024
U16Max == 65535

\* [0u8; n]
Zeros(n) == [i \in 1..n |-> 0]
\* packet[offset .. offset + bytes.len()].copy_from_slice(bytes), offset counted from 0
WriteAt_one_late(packet, offset, bytes) ==
    [i \in 1..Len(packet) |->
        IF i > offset + 1 /\ i <= offset + 1 + Len(bytes) THEN bytes[i - offset - 1] ELSE packet[i]]
WriteAt(packet, offset, bytes) ==
    [i \in 1..Len(packet) |->
        IF i > offset /\ i <= offset + Len(bytes) THEN bytes[i - offset] ELSE packet[i]]

\* the byte strings of the source: b"CRT", b"DIS", ...
b_CRT == <<67, 82, 84>>
b_DIS == <<68, 73, 83>>
b_LIG == <<76, 73, 71>>
b_QUCMD == <<81, 85, 67, 77, 68>>
b_CONNECT == <<67, 79, 78, 78, 69, 67, 84>>
b_STP == <<83, 84, 80>>
b_CLE == <<67, 76, 69>>
b_CLB == <<67, 76, 66>>
b_DC == <<68, 67>>
b_HAH == <<72, 65, 72>>
b_BAT == <<66, 65, 84>>

\* let mut packet = [0u8; CRT_PACKET_SIZE]; packet[0..3].copy_from_slice(b"CRT")
crt_packet == WriteAt(Zeros(CRT_PACKET_SIZE), 0, b_CRT)

build_display_init_packet_bytes == WriteAt(crt_packet, 5, b_DIS)
build_brightness_packet_bytes(level) ==
    WriteAt(WriteAt(crt_packet, 5, b_LIG), 10, <<Min(level, 100)>>)
build_quick_command_packet ==
    WriteAt(WriteAt(crt_packet, 5, b_QUCMD), 10, <<17, 17, 0, 17, 0, 17>>)
build_connect_packet == WriteAt(crt_packet, 5, b_CONNECT)
build_stp_packet_bytes == WriteAt(crt_packet, 5, b_STP)
build_clear_screens_packet_bytes == WriteAt(crt_packet, 5, b_CLE)
build_clear_lcd_packet_bytes == WriteAt(WriteAt(crt_packet, 5, b_CLE), 9, b_DC)
build_clear_buttons_packet_bytes == WriteAt(WriteAt(crt_packet, 5, b_CLB), 9, b_DC)
build_halt_packet_bytes == WriteAt(crt_packet, 5, b_HAH)

\* `data_length as u16`, then `.min(u16::MAX)`
bat_size(data_length) == Min(data_length % (U16Max + 1), U16Max)
\* build_image_bat_packet.  `button_index + 1` is a u8 addition: past U8Max
\* it panics when overflow checks are compiled in and wraps to 0 when not.
build_image_bat_packet(button_index, data_length, overflow_checks) ==
    LET size == bat_size(data_length)
        sized == WriteAt(WriteAt(WriteAt(crt_packet, 5, b_BAT),
                                 10, <<size \div 256>>), 11, <<size % 256>>)
    IN  IF button_index + 1 > U8Max /\ overflow_checks
        THEN [panicked |-> TRUE, bytes |-> <<>>]
        ELSE [panicked |-> FALSE,
              bytes |-> WriteAt(sized, 12, <<(button_index + 1) % (U8Max + 1)>>)]

\* build_image_data_packet: the chunk at the start of a zeroed packet
build_image_data_packet(data) ==
    LET copy_len == Min(Len(data), CRT_PACKET_SIZE)
    IN  WriteAt(Zeros(CRT_PACKET_SIZE), 0, SubSeq(data, 1, copy_len))

\* the builders without an image argument, by name
Builders ==
    {"build_display_init_packet", "build_brightness_packet", "build_quick_command_packet",
     "build_connect_packet", "build_stp_packet", "build_clear_screens_packet",
     "build_clear_lcd_packet", "build_clear_buttons_packet", "build_halt_packet"}
BuilderBytes(builder, level) ==
    CASE builder = "build_display_init_packet" -> build_display_init_packet_bytes
      [] builder = "build_brightness_packet" -> build_brightness_packet_bytes(level)
      [] builder = "build_quick_command_packet" -> build_quick_command_packet
      [] builder = "build_connect_packet" -> build_connect_packet
      [] builder = "build_stp_packet" -> build_stp_packet_bytes
      [] builder = "build_clear_screens_packet" -> build_clear_screens_packet_bytes
      [] builder = "build_clear_lcd_packet" -> build_clear_lcd_packet_bytes
      [] builder = "build_clear_buttons_packet" -> build_clear_buttons_packet_bytes
      [] builder = "build_halt_packet" -> build_halt_packet_bytes

(***************************************************************************)
(* SoomfonProtocol::set_button_image (hid/protocol.rs).  It changes no     *)
(* field of the manager; what it does is its result and the packets it     *)
(* hands to send_command, in order.  has_handle says whether the manager   *)
(* holds a handle, failAt which write fails (0: none).                     *)
(***************************************************************************)
\* longest image, in packets, handed to set_button_image
MaxChunks == 2

\* one write_interrupt of send_command and whether it succeeded
Write(packet, ok) == [packet |-> packet, ok |-> ok]
UploadResult(result, writes) == [result |-> result, writes |-> writes]

\* the `while offset < jpeg_data.len()` loop: the data packets from offset on
RECURSIVE image_chunks_whole_packets(_, _)
RECURSIVE image_chunks(_, _)
image_chunks_whole_packets(jpeg_data, offset) ==
    IF offset + CRT_PACKET_SIZE <= Len(jpeg_data)
    THEN <<build_image_data_packet(SubSeq(jpeg_data, offset + 1, offset + CRT_PACKET_SIZE))>>
            \o image_chunks_whole_packets(jpeg_data, offset + CRT_PACKET_SIZE)
    ELSE <<>>
image_chunks(jpeg_data, offset) ==
    IF offset < Len(jpeg_data)
    THEN LET end == Min(offset + CRT_PACKET_SIZE, Len(jpeg_data))
         IN  <<build_image_data_packet(SubSeq(jpeg_data, offset + 1, end))>>
                \o image_chunks(jpeg_data, end)
    ELSE <<>>

set_button_image(button_index, jpeg_data, has_handle, failAt) ==
    IF button_index > 5 THEN UploadResult(Err("InvalidData"), <<>>)
    ELSE IF Len(jpeg_data) < 3 THEN UploadResult(Err("InvalidData"), <<>>)
    ELSE IF jpeg_data[1] # 255 \/ jpeg_data[2] # 216 \/ jpeg_data[3] # 255
         THEN UploadResult(Err("InvalidData"), <<>>)
    ELSE LET bat == build_image_bat_packet(button_index, Len(jpeg_data), TRUE).bytes
             packets == <<bat>> \o image_chunks(jpeg_data, 0) \o <<build_stp_packet_bytes>>
         IN  IF ~has_handle THEN UploadResult(Err("NotConnected"), <<>>)
             ELSE IF failAt \in 1..Len(packets)
                  THEN UploadResult(Err("WriteFailed"),
                                    [i \in 1..failAt |-> Write(packets[i], i # failAt)])
             ELSE UploadResult(Ok(NoInfo), [i \in 1..Len(packets) |-> Write(packets[i], TRUE)])

\* inputs of the codec functions
Headers == {ACK_HEADER, <<65, 67, 76>>, <<67, 82, 84>>}
Signatures == {ACK_OK, <<79, 0>>, <<0, 75>>}
BufferIds == {0, 1, 37, 255}
BufferStates == {0, 1}
Paddings == {0, 7}
FullBuffer(h, sig, id, st, p) ==
    h \o <<p, p>> \o sig \o <<p, p>> \o <<id, st>> \o [i \in 1..(MaxBufLen - 11) |-> p]
AckBuffers ==
    {SubSeq(FullBuffer(h, sig, id, st, p), 1, n) :
        h \in Headers, sig \in Signatures, id \in BufferIds, st \in BufferStates,
        p \in Paddings, n \in 0..MaxBufLen}
StateBytes == {0, 1, 2, U8Max}

\* lengths handed to build_image_bat_packet (a u32)
DataLengths == {0, 1, 255, 256, 1234, U16Max, U16Max + 1, 70000, 1000000}
\* a JPEG of n >= 3 bytes: the magic FF D8 FF, then bytes that are not 0
Jpeg(n) == [i \in 1..n |-> IF i = 1 THEN 255 ELSE IF i = 2 THEN 216 ELSE IF i = 3 THEN 255
                                       ELSE ((i * 7) % U8Max) + 1]
ImageLengths ==
    {3, (MaxChunks - 1) * CRT_PACKET_SIZE + 1}
      \cup {k * CRT_PACKET_SIZE + d : k \in 1..MaxChunks, d \in {0 - 1, 0}}
Images == {Jpeg(n) : n \in ImageLengths} \cup {<<>>, <<255, 216>>, <<255, 216, 0, 1>>}
\* images of more bytes than a u16 counts
LongImages == {Jpeg(U16Max + 1), Jpeg(U16Max + 1 + CRT_PACKET_SIZE + 2)}

NoInput ==
    [fn |-> None, buf |-> <<>>, event_id |-> 0, state |-> 0, level |-> 0,
     builder |-> None, button_index |-> 0, data_length |-> 0, overflow_checks |-> TRUE,
     jpeg_data |-> <<>>, has_handle |-> FALSE, failAt |-> 0]
CodecInputs ==
    {[NoInput EXCEPT !.fn = "parse_ack_packet", !.buf = b] : b \in AckBuffers}
      \cup {[NoInput EXCEPT !.fn = "RawEvent_parse", !.event_id = id, !.state = st] :
                id \in 0..U8Max, st \in StateBytes}
      \cup {[NoInput EXCEPT !.fn = "build_brightness_packet", !.level = l] : l \in 0..U8Max}
      \cup {[NoInput EXCEPT !.fn = "build_packet", !.builder = b] :
                b \in Builders \ {"build_brightness_packet"}}
      \cup {[NoInput EXCEPT !.fn = "build_packet", !.builder = "build_brightness_packet",
                            !.level = l] : l \in {0, 50, 100, 101, U8Max}}
      \cup {[NoInput EXCEPT !.fn = "build_image_bat_packet", !.button_index = b,
                            !.data_length = n, !.overflow_checks = c] :
                b \in 0..6 \cup {U8Max}, n \in DataLengths, c \in BOOLEAN}
      \cup {[NoInput EXCEPT !.fn = "set_button_image", !.button_index = b, !.jpeg_data = j,
                            !.has_handle = h, !.failAt = f] :
                b \in {0, 5, 6}, j \in Images, h \in BOOLEAN, f \in 0..(MaxChunks + 2)}
      \cup {[NoInput EXCEPT !.fn = "set_button_image", !.button_index = b, !.jpeg_data = j,
                            !.has_handle = TRUE] : b \in {0, 5}, j \in LongImages}
NoOutput ==
    [computed |-> FALSE, raw |-> NoRawEvent, event |-> NoEvent,
     note |-> NoNotification, packet |-> NoPacket,
     panicked |-> FALSE, bytes |-> <<>>, upload |-> UploadResult(Err(None), <<>>)]

apply_parse_ack_packet ==
    /\ cin.fn = "parse_ack_packet" /\ ~cout.computed
    /\ cout' = [NoOutput EXCEPT !.computed = TRUE, !.raw = parse_ack_packet(cin.buf),
                                !.note = poll_emit(cin.buf)]
    /\ UNCHANGED <<cin, engineVars, cmdVars, mgrVars, devVars, binderVars>>

apply_RawEvent_parse ==
    /\ cin.fn = "RawEvent_parse" /\ ~cout.computed
    /\ cout' = [NoOutput EXCEPT !.computed = TRUE,
                                !.event = RawEvent_parse(cin.event_id, cin.state),
                                !.note = Notification(RawEvent_parse(cin.event_id, cin.state))]
    /\ UNCHANGED <<cin, engineVars, cmdVars, mgrVars, devVars, binderVars>>

apply_build_brightness_packet ==
    /\ cin.fn = "build_brightness_packet" /\ ~cout.computed
    /\ cout' = [NoOutput EXCEPT !.computed = TRUE, !.packet = build_brightness_packet(cin.level)]
    /\ UNCHANGED <<cin, engineVars, cmdVars, mgrVars, devVars, binderVars>>

apply_build_packet ==
    /\ cin.fn = "build_packet" /\ ~cout.computed
    /\ cout' = [NoOutput EXCEPT !.computed = TRUE, !.bytes = BuilderBytes(cin.builder, cin.level)]
    /\ UNCHANGED <<cin, engineVars, cmdVars, mgrVars, devVars, binderVars>>

apply_build_image_bat_packet ==
    /\ cin.fn = "build_image_bat_packet" /\ ~cout.computed
    /\ LET built == build_image_bat_packet(cin.button_index, cin.data_length, cin.overflow_checks)
       IN  cout' = [NoOutput EXCEPT !.computed = TRUE, !.panicked = built.panicked,
                                    !.bytes = built.bytes]
    /\ UNCHANGED <<cin, engineVars, cmdVars, mgrVars, devVars, binderVars>>

apply_set_button_image ==
    /\ cin.fn = "set_button_image" /\ ~cout.computed
    /\ cout' = [NoOutput EXCEPT !.computed = TRUE,
                                !.upload = set_button_image(cin.button_index, cin.jpeg_data,
                                                            cin.has_handle, cin.failAt)]
    /\ UNCHANGED <<cin, engineVars, cmdVars, mgrVars, devVars, binderVars>>

(***************************************************************************)
(* Device commands and polling threads (SpecDev).  A command holds the     *)
(* manager mutex from its `manager.lock()` to the end of that scope; the   *)
(* manager calls it makes in between are steps no other command can        *)
(* interleave with.  A polling thread owns the handle it was spawned with  *)
(* and takes no lock.                                                      *)
(***************************************************************************)
\* polling threads that can be spawned
MaxPollers == 2
Pollers == 1..MaxPollers

NoCommand == [op |-> "idle", level |-> 0]

\* no command is inside a manager.lock() scope
LockFree == cd \notin {"initialize", "fail", "take"} /\ wc.op = "idle"

\* the polling threads that have been started and have not ended
Polling == {t \in Pollers : ppc[t] \notin {"unborn", "done"}}

pollVars == <<ppc, released, lastRead, emitted, pending>>

\* connect_device, lines 70-80: the already-polling check
connect_device_begin ==
    /\ cd = "idle"
    /\ \E t \in Pollers : ppc[t] = "unborn"
    /\ POLLING_ACTIVE => LockFree
    /\ cd' = IF POLLING_ACTIVE /\ device_info.present THEN "idle" ELSE "connect"
    /\ UNCHANGED <<POLLING_ACTIVE, dd, wc, pollVars, engineVars, cmdVars, mgrVars, codecVars, binderVars>>

\* connect_device, lines 82-85: lock, mgr.connect()?
connect_device_connect(ctxOk, step) ==
    /\ cd = "connect"
    /\ LockFree
    /\ connect(ctxOk, step)
    /\ cd' = IF lastResult'.ok THEN "initialize" ELSE "idle"
    /\ UNCHANGED <<POLLING_ACTIVE, dd, wc, pollVars>>

\* connect_device, lines 89-98: mgr.initialize()
connect_device_initialize(fw, failAt, avail) ==
    /\ cd = "initialize"
    /\ initialize(fw, failAt, avail)
    /\ cd' = IF lastResult'.ok THEN "take" ELSE "fail"
    /\ UNCHANGED <<POLLING_ACTIVE, dd, wc, pollVars>>

\* connect_device, lines 102-125: the three test reads, which change nothing
\* in the manager, then mgr.take_polling_handle(); on success the lock is dropped
connect_device_take ==
    /\ cd = "take"
    /\ take_polling_handle
    /\ cd' = IF lastResult'.ok THEN "spawn" ELSE "fail"
    /\ UNCHANGED <<POLLING_ACTIVE, dd, wc, pollVars>>

\* connect_device, lines 95-96 and 122-123: mgr.disconnect() and return Err
connect_device_fail(wok, relOk) ==
    /\ cd = "fail"
    /\ disconnect(wok, relOk)
    /\ cd' = "idle"
    /\ UNCHANGED <<POLLING_ACTIVE, dd, wc, pollVars>>

\* connect_device, lines 131-260: set the flag, spawn the polling thread with
\* the handle, return
connect_device_spawn(t) ==
    /\ cd = "spawn"
    /\ ppc[t] = "unborn"
    /\ \A u \in Pollers : ppc[u] = "unborn" => t <= u
    /\ POLLING_ACTIVE' = TRUE
    /\ ppc' = [ppc EXCEPT ![t] = "test_read"]
    /\ cd' = "idle"
    /\ UNCHANGED <<dd, wc, released, lastRead, emitted, pending, engineVars, cmdVars, mgrVars, codecVars, binderVars>>

\* disconnect_device, lines 271-274: clear the flag, sleep
disconnect_device_begin ==
    /\ dd = "idle"
    /\ POLLING_ACTIVE' = FALSE
    /\ dd' = "sleep"
    /\ UNCHANGED <<cd, wc, pollVars, engineVars, cmdVars, mgrVars, codecVars, binderVars>>

\* disconnect_device, lines 276-284: lock, mgr.disconnect(), return
disconnect_device_disconnect(wok, relOk) ==
    /\ dd = "sleep"
    /\ LockFree
    /\ disconnect(wok, relOk)
    /\ dd' = "idle"
    /\ UNCHANGED <<POLLING_ACTIVE, cd, wc, pollVars>>

\* set_brightness / clear_button, first half: lock, manager.reopen_for_commands()?
command_reopen(op, level, step) ==
    /\ LockFree
    /\ reopen_for_commands(step)
    /\ wc' = IF lastResult'.ok THEN [op |-> op, level |-> level] ELSE NoCommand
    /\ UNCHANGED <<POLLING_ACTIVE, cd, dd, pollVars>>

\* set_brightness, second half: protocol.set_brightness(level)
set_brightness_send(wok) ==
    /\ wc.op = "set_brightness"
    /\ set_brightness(wc.level, wok)
    /\ wc' = NoCommand
    /\ UNCHANGED <<POLLING_ACTIVE, cd, dd, pollVars>>

\* clear_button, second half: protocol.clear_screen(index)
clear_button_send(wok) ==
    /\ wc.op = "clear_button"
    /\ clear_screen(wok)
    /\ wc' = NoCommand
    /\ UNCHANGED <<POLLING_ACTIVE, cd, dd, pollVars>>

\* polling thread, lines 146-151: the test read, whose outcome is only logged
poll_test_read(t) ==
    /\ ppc[t] = "test_read"
    /\ ppc' = [ppc EXCEPT ![t] = "check"]
    /\ UNCHANGED <<POLLING_ACTIVE, cd, dd, wc, released, lastRead, emitted, pending,
                   engineVars, cmdVars, mgrVars, codecVars, binderVars>>

\* polling thread, line 152: while POLLING_ACTIVE.load()
poll_check_ignores_flag(t) ==
    /\ ppc[t] = "check"
    /\ ppc' = [ppc EXCEPT ![t] = "read"]
    /\ UNCHANGED <<POLLING_ACTIVE, cd, dd, wc, released, lastRead, emitted, pending,
                   engineVars, cmdVars, mgrVars, codecVars, binderVars>>
poll_check(t) ==
    /\ ppc[t] = "check"
    /\ ppc' = [ppc EXCEPT ![t] = IF POLLING_ACTIVE THEN "read" ELSE "release"]
    /\ UNCHANGED <<POLLING_ACTIVE, cd, dd, wc, released, lastRead, emitted, pending,
                   engineVars, cmdVars, mgrVars, codecVars, binderVars>>

\* what read_interrupt gives the polling loop, and the bytes it may deliver
PollOutcomes == {"data", "zero", "timeout", "no_device", "error"}
PollBuffers == {FullBuffer(ACK_HEADER, ACK_OK, id, PRESS, 0) : id \in {0, lcd_BUTTON_1}}

\* a read of the polling loop: the thread, the outcome of read_interrupt, the
\* bytes it delivered and the notification the loop emitted for them
Read(t, outcome, data, note) == [thread |-> t, outcome |-> outcome, data |-> data, note |-> note]
NoRead == Read(0, None, <<>>, NoNotification)

\* where the loop goes after the match on the outcome: no arm breaks or returns
after_read_error_breaks(outcome) == IF outcome = "error" THEN "release" ELSE "check"
after_read(outcome) == "check"

\* polling thread, lines 160-250: one read_interrupt and the match on its
\* result; every arm falls through to the loop condition
poll_read(t, outcome, data) ==
    /\ ppc[t] = "read"
    /\ LET note == IF outcome = "data" THEN poll_emit(data) ELSE NoNotification
       IN  /\ lastRead' = Read(t, outcome, IF outcome = "data" THEN data ELSE <<>>, note)
           /\ IF note # NoNotification
              THEN /\ pending' = Append(pending, [thread |-> t, note |-> note])
                   /\ ppc' = [ppc EXCEPT ![t] = "emit"]
              ELSE /\ pending' = pending
                   /\ ppc' = [ppc EXCEPT ![t] = after_read(outcome)]
    /\ UNCHANGED emitted
    /\ UNCHANGED <<POLLING_ACTIVE, cd, dd, wc, released,
                   engineVars, cmdVars, mgrVars, codecVars, binderVars>>

\* polling thread, lines 176-234: app.emit of the notification for the
\* packet the thread has just read and decoded
poll_notify(t) ==
    /\ ppc[t] = "emit"
    /\ LET i == CHOOSE k \in 1..Len(pending) : pending[k].thread = t
       IN  /\ emitted' = pending[i].note
           /\ pending' = SubSeq(pending, 1, i - 1) \o SubSeq(pending, i + 1, Len(pending))
    /\ ppc' = [ppc EXCEPT ![t] = "check"]
    /\ UNCHANGED <<POLLING_ACTIVE, cd, dd, wc, released, lastRead,
                   engineVars, cmdVars, mgrVars, codecVars, binderVars>>

\* polling thread, lines 253-257: release the interface, end
poll_release(t, relOk) ==
    /\ ppc[t] = "release"
    /\ released' = [released EXCEPT ![t] = @ + 1]
    /\ ppc' = [ppc EXCEPT ![t] = "done"]
    /\ UNCHANGED <<POLLING_ACTIVE, cd, dd, wc, lastRead, emitted, pending,
                   engineVars, cmdVars, mgrVars, codecVars, binderVars>>

\* one step of polling thread t
PollStep(t) ==
    \/ poll_test_read(t)
    \/ poll_check(t)
    \/ \E outcome \in PollOutcomes, data \in PollBuffers : poll_read(t, outcome, data)
    \/ poll_notify(t)
    \/ \E relOk \in BOOLEAN : poll_release(t, relOk)

(***************************************************************************)
(* The event binder (actions/event_binder.rs).  An Option<Action> is None  *)
(* or the kind of the action; a Vec of configurations is a sequence.       *)
(***************************************************************************)
ButtonConfig(index, action, long_press_action, shift_action) ==
    [index |-> index, action |-> action, long_press_action |-> long_press_action,
     shift_action |-> shift_action]
EncoderConfig(index, press_action, long_press_action, cw_action, ccw_action) ==
    [index |-> index, press_action |-> press_action, long_press_action |-> long_press_action,
     clockwise_action |-> cw_action, counter_clockwise_action |-> ccw_action]

\* Workspace: its button and encoder configurations
Workspace(buttons, encoders) == [buttons |-> buttons, encoders |-> encoders]
\* Workspace::default()
DefaultWorkspace == Workspace(<<>>, <<>>)

\* Option<Profile>
NoProfile ==
    [some |-> FALSE, name |-> None, workspaces |-> <<>>, active_workspace_index |-> 0,
     buttons |-> <<>>, encoders |-> <<>>]
\* Profile::new(name) with the legacy fields buttons and encoders assigned
Profile(name, buttons, encoders) ==
    [some |-> TRUE, name |-> name, workspaces |-> <<DefaultWorkspace>>,
     active_workspace_index |-> 0, buttons |-> buttons, encoders |-> encoders]

\* Profile::active_workspace (Option: DefaultWorkspace stands for None)
active_workspace(p) ==
    IF p.active_workspace_index + 1 \in DOMAIN p.workspaces
    THEN p.workspaces[p.active_workspace_index + 1]
    ELSE DefaultWorkspace

\* Profile::migrate_legacy_config
migrate_legacy_config(p) ==
    IF p.buttons # <<>> \/ p.encoders # <<>>
    THEN LET pushed == IF p.workspaces = <<>> THEN <<DefaultWorkspace>> ELSE p.workspaces
             takeButtons == pushed[1].buttons = <<>>
             takeEncoders == pushed[1].encoders = <<>>
         IN  [p EXCEPT !.workspaces =
                           [pushed EXCEPT ![1] =
                               Workspace(IF takeButtons THEN p.buttons ELSE pushed[1].buttons,
                                         IF takeEncoders THEN p.encoders ELSE pushed[1].encoders)],
                       !.buttons = IF takeButtons THEN <<>> ELSE p.buttons,
                       !.encoders = IF takeEncoders THEN <<>> ELSE p.encoders]
    ELSE p

\* configs.iter().find(|c| c.index == index): the position of the first
\* configuration with that index, 0 for Option::None
find_last(configs, index) ==
    LET hits == {i \in 1..Len(configs) : configs[i].index = index}
    IN  IF hits = {} THEN 0 ELSE CHOOSE i \in hits : \A j \in hits : j <= i
find(configs, index) ==
    LET hits == {i \in 1..Len(configs) : configs[i].index = index}
    IN  IF hits = {} THEN 0 ELSE CHOOSE i \in hits : \A j \in hits : i <= j

\* `match event_type` of the Button arm
button_action_release_fires(button_config, event_type) ==
    CASE event_type = "Press" -> button_config.action
      [] event_type = "Release" -> button_config.action
      [] event_type = "LongPress" -> button_config.long_press_action
button_action(button_config, event_type) ==
    CASE event_type = "Press" -> button_config.action
      [] event_type = "Release" -> None
      [] event_type = "LongPress" -> button_config.long_press_action

\* `match encoder_type` and `match event_type` of the Encoder arm
encoder_index(encoder_type) ==
    CASE encoder_type = "Main" -> 0
      [] encoder_type = "Side1" -> 1
      [] encoder_type = "Side2" -> 2
encoder_action(encoder_config, event_type) ==
    CASE event_type = "RotateCW" -> encoder_config.clockwise_action
      [] event_type = "RotateCCW" -> encoder_config.counter_clockwise_action
      [] event_type = "Press" -> encoder_config.press_action
      [] event_type = "Release" -> None
      [] event_type = "LongPress" -> encoder_config.long_press_action

\* a resolution that answers the LCD buttons only
resolve_lcd_only(p, event) ==
    IF ~p.some THEN None
    ELSE IF event.kind = "Button"
         THEN LET i == find(p.buttons, event.index)
              IN  IF i = 0 \/ event.button_type # "Lcd" THEN None
                  ELSE button_action(p.buttons[i], event.event_type)
         ELSE LET i == find(p.encoders, encoder_index(event.encoder_type))
              IN  IF i = 0 THEN None ELSE encoder_action(p.encoders[i], event.event_type)
\* the body of get_action_for_event for the binder's profile p
resolve(p, event) ==
    IF ~p.some THEN None
    ELSE IF event.kind = "Button"
         THEN LET i == find(p.buttons, event.index)
              IN  IF i = 0 THEN None ELSE button_action(p.buttons[i], event.event_type)
         ELSE LET i == find(p.encoders, encoder_index(event.encoder_type))
              IN  IF i = 0 THEN None ELSE encoder_action(p.encoders[i], event.event_type)

NoBinding == [op |-> "new", arg |-> NoProfile]
NoResolution == [called |-> FALSE, event |-> NoEvent, action |-> None]

\* EventBinder::new
BinderInit ==
    /\ profile = NoProfile
    /\ bound = NoBinding
    /\ resolved = NoResolution

bind_profile_keeps_first(p) ==
    /\ profile' = IF profile.some THEN profile ELSE p
    /\ bound' = [op |-> "bind_profile", arg |-> p]
    /\ resolved' = NoResolution
    /\ UNCHANGED <<engineVars, cmdVars, mgrVars, devVars, codecVars>>
bind_profile(p) ==
    /\ profile' = p
    /\ bound' = [op |-> "bind_profile", arg |-> p]
    /\ resolved' = NoResolution
    /\ UNCHANGED <<engineVars, cmdVars, mgrVars, devVars, codecVars>>

unbind ==
    /\ profile' = NoProfile
    /\ bound' = [op |-> "unbind", arg |-> NoProfile]
    /\ resolved' = NoResolution
    /\ UNCHANGED <<engineVars, cmdVars, mgrVars, devVars, codecVars>>

get_action_for_event(event) ==
    /\ resolved' = [called |-> TRUE, event |-> event, action |-> resolve(profile, event)]
    /\ UNCHANGED <<profile, bound, engineVars, cmdVars, mgrVars, devVars, codecVars>>

\* inputs of the binder: profiles with up to two button configurations (two
\* of them may carry the same index) and up to two encoder configurations
Seqs2(S) == {<<>>} \cup {<<a>> : a \in S} \cup {<<a, b>> : a \in S, b \in S}
ButtonConfigs ==
    {ButtonConfig(i, a[1], a[2], "Launch") :
        i \in {0, 2},
        a \in {<<None, None>>, <<"Keyboard", "Media">>}}
EncoderConfigs ==
    {EncoderConfig(0, "System", None, "Script", "Http"),
     EncoderConfig(0, None, "Media", None, None)}
Profiles ==
    {Profile("Test Profile", bs, es) : bs \in Seqs2(ButtonConfigs), es \in Seqs2(EncoderConfigs)}
\* profiles stored before workspaces existed, and one whose first workspace
\* already holds buttons
LegacyProfiles ==
    {p \in Profiles : Len(p.buttons) = 1 /\ Len(p.encoders) <= 1 /\ p.buttons[1].index = 0}
      \cup {[p EXCEPT !.workspaces = <<Workspace(p.buttons, <<>>)>>] :
                p \in {q \in Profiles : Len(q.buttons) = 1 /\ Len(q.encoders) = 1
                                            /\ q.buttons[1].action = None}}
ButtonEventTypes == {"Press", "Release", "LongPress"}
EncoderEventTypes == {"RotateCW", "RotateCCW", "Press", "Release", "LongPress"}
BinderEvents ==
    {Button(i, t, e) : i \in {0, 1, 2}, t \in {"Lcd", "Physical"}, e \in ButtonEventTypes}
      \cup {Encoder(t, e) : t \in {"Main", "Side1"}, e \in EncoderEventTypes}

(***************************************************************************)
(* Initial state and specifications                                        *)
(***************************************************************************)
\* ActionEngine::new
EngineInit ==
    /\ history = <<>>
    /\ is_executing = FALSE
    /\ cells = [c \in Cells |-> FALSE]
    /\ token_of = [h \in Holders |-> NoToken]
    /\ fut = NoFuture
    /\ lastCall = None
    /\ ret = NoCall
    /\ recLog = <<>>

\* no command is running
CmdInit ==
    /\ cpc = [c \in Callers |-> "idle"]
    /\ cact = [c \in Callers |-> None]
    /\ cres = [c \in Callers |-> NoResult]
    /\ cret = [c \in Callers |-> NoCall]

\* HidManager::new
MgrInit ==
    /\ state = "Disconnected"
    /\ device_info = NoInfo
    /\ context = None
    /\ handle = None
    /\ initialized = FALSE
    /\ lastOp = None
    /\ lastResult = Ok(NoInfo)
    /\ io = <<>>
    /\ pre = [state |-> "Disconnected", device_info |-> NoInfo, context |-> None,
              handle |-> None, initialized |-> FALSE, failed |-> FALSE]
    /\ failed = FALSE
    /\ handed_off = FALSE

\* no device command is running, no polling thread has been spawned
DevInit ==
    /\ POLLING_ACTIVE = FALSE
    /\ cd = "idle"
    /\ dd = "idle"
    /\ wc = NoCommand
    /\ ppc = [t \in Pollers |-> "unborn"]
    /\ released = [t \in Pollers |-> 0]
    /\ lastRead = NoRead
    /\ emitted = NoNotification
    /\ pending = <<>>

\* no codec function is under evaluation
CodecIdle ==
    /\ cin = NoInput
    /\ cout = NoOutput

Init == EngineInit /\ CmdInit /\ MgrInit /\ DevInit /\ CodecIdle /\ BinderInit

\* a codec function is about to be applied to one of its inputs
InitCodec ==
    /\ EngineInit /\ CmdInit /\ MgrInit /\ DevInit /\ BinderInit
    /\ cin \in CodecInputs
    /\ cout = NoOutput

NextEngine ==
    \/ \E a \in ActionInputs : execute_begin(a)
    \/ \E r \in ResultInputs, d \in Durations : execute_finish(r, d)
    \/ execute_drop
    \/ cancel
    \/ \E a \in ActionInputs, r \in ResultInputs, d \in Durations :
          record_execution(a, [r EXCEPT !.duration_ms = d])
    \/ clear_history
    \/ \E h \in Holders : get_cancellation_token(h)
    \/ \E h \in Holders : token_cancel(h)
    \/ \E h \in Holders : token_reset(h)
    \/ \E h \in Holders : token_drop(h)

SpecEngine == Init /\ [][NextEngine]_vars

NextCmd ==
    \/ \E c \in Callers, a \in ActionInputs : cmd_execute_begin(c, a)
    \/ \E c \in Callers, r \in ResultInputs, d \in Durations : cmd_handler_done(c, r, d)
    \/ \E c \in Callers : cmd_record(c)
    \/ cancel_action

SpecCmd == Init /\ [][NextCmd]_vars

\* what the transfer log keeps of a 1024-byte packet: the command of a CRT
\* packet (of a BAT packet with the size it encodes), nothing of an image chunk
Summary(bytes) ==
    IF SubSeq(bytes, 1, 3) # b_CRT THEN NoPacket
    ELSE IF SubSeq(bytes, 6, 8) = b_BAT THEN Packet("BAT", None, bytes[11] * 256 + bytes[12])
    ELSE IF SubSeq(bytes, 6, 8) = b_STP THEN Packet("STP", None, 0)
    ELSE NoPacket

\* the images and button indexes the manager-level upload is called with, and
\* which write fails (0: none)
UploadLengths == {0, 3, CRT_PACKET_SIZE, CRT_PACKET_SIZE + 1}
UploadButtons == {0, 6}
UploadFailures == {0, 2}
\* set_button_image for each of these inputs, with and without a handle:
\* its result and its transfers
UploadRuns ==
    [button_index \in UploadButtons, n \in UploadLengths, has_handle \in BOOLEAN, failAt \in UploadFailures |->
        LET run == set_button_image(button_index, Jpeg(n), has_handle, failAt)
        IN  [result |-> run.result,
             io |-> [i \in 1..Len(run.writes) |->
                        IO("write_interrupt", Summary(run.writes[i].packet), run.writes[i].ok)]]]

\* SoomfonProtocol::set_button_image on the manager: every packet goes through
\* HidManager::send_command, no field of the manager changes
protocol_set_button_image(button_index, n, failAt) ==
    /\ LET run == UploadRuns[button_index, n, handle # None, failAt]
       IN  Return("set_button_image", run.result, run.io)
    /\ UNCHANGED <<state, device_info, context, handle, initialized, engineVars, cmdVars, codecVars, binderVars>>

\* after each step of initialize the device has nothing pending, or more than a drain reads
AvailChoices == [1..Len(InitSequence) -> {0, MaxAvail}]
WriteChoices == [1..Len(ShutdownSequence) -> BOOLEAN]

\* the packets and brightness levels the manager API is called with
SentPackets == {build_halt_packet, build_stp_packet}
BrightnessLevels == {0, 100, 101, 255}

NextMgr ==
    \/ \E ctxOk \in BOOLEAN, listOk \in BOOLEAN :
          enumerate_devices(ctxOk, listOk) /\ UNCHANGED devVars
    \/ \E ctxOk \in BOOLEAN, step \in OpenOutcomes : connect(ctxOk, step) /\ UNCHANGED devVars
    \/ \E fw \in FirmwareOutcomes, failAt \in 0..Len(InitSequence), avail \in AvailChoices :
          initialize(fw, failAt, avail) /\ UNCHANGED devVars
    \/ \E wok \in WriteChoices : shutdown(wok) /\ UNCHANGED devVars
    \/ \E wok \in WriteChoices, relOk \in BOOLEAN : disconnect(wok, relOk) /\ UNCHANGED devVars
    \/ take_polling_handle /\ UNCHANGED devVars
    \/ \E step \in OpenOutcomes : reopen_for_commands(step) /\ UNCHANGED devVars
    \/ \E packet \in SentPackets, wok \in BOOLEAN :
          send_command_call(packet, wok) /\ UNCHANGED devVars
    \/ \E outcome \in ReadOutcomes : read_response(outcome) /\ UNCHANGED devVars
    \/ \E level \in BrightnessLevels, wok \in BOOLEAN :
          set_brightness(level, wok) /\ UNCHANGED devVars
    \/ \E wok \in BOOLEAN : clear_screen(wok) /\ UNCHANGED devVars
    \/ \E button_index \in UploadButtons, n \in UploadLengths, failAt \in UploadFailures :
          protocol_set_button_image(button_index, n, failAt) /\ UNCHANGED devVars

SpecMgr == Init /\ [][NextMgr]_vars

\* what the USB stack answers while the device commands run
DevAvail == [i \in 1..Len(InitSequence) |-> 0]
DevLevels == {150}
DevOpenOutcomes == {"claim_interface", "none"}
DevFailAt == {0, 1}
DevWrites == {[i \in 1..Len(ShutdownSequence) |-> b] : b \in BOOLEAN}

NextDev ==
    \/ connect_device_begin
    \/ \E step \in DevOpenOutcomes : connect_device_connect(TRUE, step)
    \/ \E failAt \in DevFailAt : connect_device_initialize("hidapi", failAt, DevAvail)
    \/ connect_device_take
    \/ \E wok \in DevWrites : connect_device_fail(wok, TRUE)
    \/ \E t \in Pollers : connect_device_spawn(t)
    \/ disconnect_device_begin
    \/ \E wok \in DevWrites : disconnect_device_disconnect(wok, TRUE)
    \/ \E level \in DevLevels, step \in DevOpenOutcomes :
          command_reopen("set_brightness", level, step)
    \/ \E step \in DevOpenOutcomes : command_reopen("clear_button", 0, step)
    \/ \E wok \in BOOLEAN : set_brightness_send(wok)
    \/ \E wok \in BOOLEAN : clear_button_send(wok)
    \/ \E t \in Pollers : PollStep(t)

SpecDev == Init /\ [][NextDev]_vars

\* the polling threads are scheduled, and an interrupt read returns within
\* its timeout
SpecDevFair == SpecDev /\ \A t \in Pollers : WF_vars(PollStep(t))

NextCodec ==
    \/ apply_parse_ack_packet
    \/ apply_RawEvent_parse
    \/ apply_build_brightness_packet
    \/ apply_build_packet
    \/ apply_build_image_bat_packet
    \/ apply_set_button_image

SpecCodec == InitCodec /\ [][NextCodec]_vars

NextBinder ==
    \/ \E p \in Profiles : bind_profile(p)
    \/ \E p \in LegacyProfiles : bind_profile(migrate_legacy_config(p))
    \/ unbind
    \/ \E event \in BinderEvents : get_action_for_event(event)

SpecBinder == Init /\ [][NextBinder]_vars

(***************************************************************************)
(* Claims about the action engine and the action commands                  *)
(***************************************************************************)
\* the last n elements of s
LastN(s, n) == SubSeq(s, Len(s) - n + 1, Len(s))

\* callers of execute_action whose handler body is running
RunningHandlers == {c \in Callers : cpc[c] = "handler"}

\* C1: single-flight at the execute_action command: at most one handler body
\* runs at any time, whatever the interleaving of concurrent calls.
C1_SingleFlight == Cardinality(RunningHandlers) <= 1

\* C2: ActionEngine::execute called while the guard is set returns the failure
\* "Another action is currently executing" at once, dispatches no handler and
\* leaves history, guard and cancellation token as they were.
C2_BusyRejected ==
    [][(is_executing /\ fut = NoFuture /\ lastCall' = "execute")
         => /\ ret' = Returned(ActionResult_failure(BusyError, 0))
            /\ fut' = NoFuture
            /\ UNCHANGED <<history, is_executing, cells, token_of>>]_vars

\* a call was rejected by the guard and the guard is still set
C2_Witness ==
    /\ lastCall = "execute"
    /\ ret = Returned(ActionResult_failure(BusyError, 0))
    /\ is_executing
    /\ fut = NoFuture

\* C3: the history never holds more than 100 entries.
C3_HistoryBounded == Len(history) <= max_history

\* the history is full and an entry has been evicted
C3_Witness == Len(history) = max_history /\ Len(recLog) > max_history

\* C4: the history is FIFO: after k recordings from an empty history it is the
\* last min(k, 100) recorded entries in recording order; after 105 recordings
\* it starts with the 6th and ends with the 105th.
C4_HistoryFifo ==
    /\ history = LastN(recLog, Min(Len(recLog), max_history))
    /\ Len(recLog) = 105 => /\ history[1] = recLog[6]
                            /\ history[Len(history)] = recLog[105]

\* 105 recordings were made, the first of them with a non-default input
C4_Witness ==
    /\ Len(recLog) = 105
    /\ Len(history) = max_history
    /\ recLog[1] # recLog[2]

\* C5: right after ActionEngine::cancel every clone of the token handed out
\* before reports cancelled, and the guard is clear.
C5_CancelReachesClones ==
    lastCall = "cancel" =>
        /\ ~is_executing
        /\ is_cancelled(EngineCell)
        /\ \A h \in Holders : token_of[h] # NoToken => is_cancelled(token_of[h])

\* cancel was called while a clone was held
C5_Witness ==
    /\ lastCall = "cancel"
    /\ \E h \in Holders : token_of[h] # NoToken /\ is_cancelled(token_of[h])

\* the history after one more entry was appended to h
Appended(h, h2) ==
    /\ Len(h2) = Min(Len(h) + 1, max_history)
    /\ SubSeq(h2, 1, Len(h2) - 1) = IF Len(h) < max_history THEN h ELSE Tail(h)

\* C27: an execute() that passed the guard and returns has appended exactly
\* one history entry (the kind name of its action, the handler's success
\* flag and error, the measured duration), has cleared the guard, and
\* returns the handler's result with its duration replaced by the measured
\* one; from guard-set to guard-clear is_executing() is true.
C27_ExecuteRecords ==
    /\ [](fut # NoFuture => is_executing)
    /\ [][(fut # NoFuture /\ ret'.st = "Returned")
            => /\ Appended(history, history')
               /\ LET entry == history'[Len(history')]
                  IN  /\ entry.action_type = get_action_type_name(fut)
                      /\ entry.success = ret'.val.success
                      /\ entry.error = ret'.val.error
                      /\ entry.duration_ms = ret'.val.duration_ms
               /\ ret'.val.duration_ms \in Durations
               /\ [ret'.val EXCEPT !.duration_ms = 7] \in HandlerResults
               /\ is_executing /\ ~is_executing'
               /\ fut' = NoFuture]_vars
C27_Witness ==
    /\ lastCall = "execute" /\ ret.st = "Returned" /\ ~is_executing
    /\ ~ret.val.success /\ ret.val.error = "handler failed" /\ ret.val.duration_ms = 3
    /\ history # <<>> /\ history[Len(history)].action_type = "script"

\* a step of execute() that passes the guard
Accepted == fut = NoFuture /\ fut' # NoFuture
\* a cancellation that was visible before the step is not visible after it
CancelLost ==
    \/ is_cancelled(EngineCell) /\ ~cells'[EngineCell]
    \/ \E h \in Holders : /\ token_of[h] # NoToken /\ token_of'[h] # NoToken
                          /\ is_cancelled(token_of[h]) /\ ~cells'[token_of'[h]]
\* after the step neither the engine's token nor any clone reports cancelled
NoneCancelled ==
    /\ ~cells'[EngineCell]
    /\ \A h \in Holders : token_of'[h] # NoToken => ~cells'[token_of'[h]]

\* C28: every execute() that passes the guard resets the cancellation token
\* before it dispatches, so a cancel() issued before it started is not
\* visible to its handler; a cancel() issued after the dispatch stays
\* visible to every clone until the next execute() that passes the guard.
C28_CancelUntilNextExecute ==
    [][/\ Accepted => NoneCancelled
       /\ CancelLost => Accepted]_vars
\* ... or until reset() is called on the token or on one of its clones.
C28_CancelUntilNextExecuteOrReset ==
    [][/\ Accepted => NoneCancelled
       /\ CancelLost => (Accepted \/ lastCall' = "token_reset")]_vars
C28_Witness ==
    /\ fut # NoFuture /\ lastCall = "token_cancel"
    /\ is_cancelled(EngineCell)
    /\ \E h \in Holders : token_of[h] # NoToken /\ is_cancelled(token_of[h])

\* C29: record_execution does not depend on the guard: it appends one entry
\* with the duration, success flag and error its caller supplied, whether
\* is_executing is set or not, and leaves is_executing and the cancellation
\* token as they were.
C29_RecordIgnoresGuard ==
    [][lastCall' = "record_execution"
         => /\ Appended(history, history')
            /\ history'[Len(history')] \in
                  {HistoryEntry(a, r.success, d, r.error) :
                      a \in ActionSet, r \in HandlerResults, d \in Durations}
            /\ Len(recLog') = Len(recLog) + 1
            /\ history'[Len(history')] = recLog'[Len(recLog')]
            /\ UNCHANGED <<is_executing, cells, token_of, fut>>]_vars
C29_Witness ==
    /\ lastCall = "record_execution" /\ is_executing
    /\ history # <<>> /\ ~history[Len(history)].success

\* a handler is running: one dispatched by ActionEngine::execute whose future
\* is alive, or one started by an execute_action command
InFlight == fut # NoFuture \/ RunningHandlers # {}

Writes(trace) == SelectSeq(trace, LAMBDA x : x.op = "write_interrupt")
\* the packets of a sequence of writes, and whether all of them succeeded
RECURSIVE PacketsOf(_)
PacketsOf(ws) == IF ws = <<>> THEN <<>> ELSE <<Head(ws).packet>> \o PacketsOf(Tail(ws))
AllOk(ws) == \A i \in 1..Len(ws) : ws[i].ok
IsPrefix(p, q) == Len(p) <= Len(q) /\ SubSeq(q, 1, Len(p)) = p

\* C6: whenever connect() or initialize() fails, the connection state
\* afterwards is Error.
C6_FailureSetsError ==
    (lastOp \in {"connect", "initialize"} /\ ~lastResult.ok) => state = "Error"

\* C7: after a failed connect() or initialize() a further connect() or
\* initialize() is rejected until disconnect() has run.
C7_OnlyDisconnectAfterFailure ==
    (pre.failed /\ lastOp \in {"connect", "initialize"}) => ~lastResult.ok

\* C8: connect() called while Connected or Initialized returns the cached
\* device info and changes nothing; it performs no USB operation.
C8_ConnectIdempotent ==
    (lastOp = "connect" /\ pre.state \in {"Connected", "Initialized"}) =>
        /\ pre.device_info.present
        /\ lastResult = Ok(pre.device_info)
        /\ [Fields EXCEPT !.failed = pre.failed] = pre
        /\ io = <<>>

\* connect() was called on an initialized manager
C8_Witness ==
    /\ lastOp = "connect"
    /\ pre.state = "Initialized"
    /\ state = "Initialized"
    /\ lastResult.ok

\* C9 as stated: initialize() succeeds only when the state is Connected; in
\* any other state it returns an error, sends nothing and leaves the state.
C9_InitializeRequiresConnected ==
    lastOp = "initialize" =>
        /\ lastResult.ok => pre.state = "Connected"
        /\ pre.state # "Connected" =>
              /\ ~lastResult.ok
              /\ io = <<>>
              /\ state = pre.state

\* C9 as amended: initialize() succeeds only when the state is Connected or
\* Initialized; in any other state it returns NotConnected, performs no USB
\* operation and leaves the manager as it was.
C9_InitializeRequiresIsConnected ==
    lastOp = "initialize" =>
        /\ lastResult.ok => pre.state \in {"Connected", "Initialized"}
        /\ pre.state \notin {"Connected", "Initialized"} =>
              /\ lastResult = Err("NotConnected")
              /\ io = <<>>
              /\ [Fields EXCEPT !.failed = pre.failed] = pre

\* initialize() was rejected on a manager that holds a handle but is not connected
C9_Witness ==
    /\ lastOp = "initialize"
    /\ pre.state = "Disconnected"
    /\ pre.handle # None
    /\ lastResult = Err("NotConnected")

\* DIS, LIG with level 50, STP, CLE
ExpectedInit ==
    <<Packet("DIS", None, 0), Packet("LIG", None, 50),
      Packet("STP", None, 0), Packet("CLE", None, 0)>>

\* C10: a successful initialize() writes exactly DIS, LIG(50), STP, CLE in
\* this order and only then is the state Initialized; when one of the writes
\* fails nothing is written after it and the state is not Initialized.
C10_InitializeSequence ==
    lastOp = "initialize" =>
        LET ws == Writes(io)
        IN  /\ lastResult.ok =>
                  /\ PacketsOf(ws) = ExpectedInit
                  /\ AllOk(ws)
                  /\ state = "Initialized"
            /\ IsPrefix(PacketsOf(ws), ExpectedInit)
            /\ ~AllOk(ws) =>
                  /\ AllOk(SubSeq(ws, 1, Len(ws) - 1))
                  /\ ~lastResult.ok
                  /\ state # "Initialized"

\* C11: disconnect() never reports an error, and after it the state is
\* Disconnected, the manager holds no handle, no context and no device info,
\* and initialized is false, whatever the state it was called in.
C11_DisconnectAlwaysClears ==
    lastOp = "disconnect" =>
        /\ lastResult.ok
        /\ state = "Disconnected"
        /\ handle = None
        /\ context = None
        /\ ~device_info.present
        /\ ~initialized

\* disconnect() ran after a failed connect, on a manager that had a context
C11_Witness ==
    /\ lastOp = "disconnect"
    /\ pre.failed
    /\ pre.state = "Connecting"
    /\ pre.context # None
    /\ state = "Disconnected"

\* C12: disconnect() called in state Connected or Initialized writes CLE.DC,
\* CLB.DC and HAH to the device in this order, whether or not a write fails,
\* and releases the interface only after them.
C12_ShutdownBeforeRelease ==
    (lastOp = "disconnect" /\ pre.state \in {"Connected", "Initialized"}) =>
        /\ PacketsOf(Writes(io)) = ShutdownSequence
        /\ \A i \in 1..Len(io) :
              io[i].op = "release_interface" => i = Len(io) /\ i = Len(ShutdownSequence) + 1

\* a polling-path holder of a device handle: the connect_device call between
\* take_polling_handle and the spawn, or a polling thread that has not ended
PollingHolds == cd = "spawn" \/ Polling # {}
\* the command path holds a device handle: the one in the manager
CommandHolds == handle # None

\* C13: the polling path and the command path never hold a device handle at
\* the same time.
C13_HandleExclusive == ~(PollingHolds /\ CommandHolds)

\* what take_polling_handle() does, and what send_command / read_response
\* return on a manager without a handle
HandOffBasics ==
    /\ lastOp = "take_polling_handle" =>
          /\ lastResult.ok <=> pre.handle # None
          /\ handle = None
          /\ state = pre.state
          /\ device_info = pre.device_info
    /\ (lastOp \in {"send_command", "read_response"} /\ pre.handle = None) =>
          /\ lastResult = Err("NotConnected")
          /\ io = <<>>

\* C14 as stated: take_polling_handle() succeeds exactly when the manager
\* holds a handle and leaves state and device info alone; from then on the
\* manager has no handle, so that send_command / read_response return
\* NotConnected, until reopen_for_commands() succeeds.
C14_NoHandleUntilReopen ==
    /\ HandOffBasics
    /\ handed_off => handle = None

\* C14 as amended: the same, the manager staying without a handle until
\* reopen_for_commands() succeeds or, after a disconnect(), connect() opens
\* the device again.
C14_NoHandleUntilReopenOrReconnect ==
    /\ HandOffBasics
    /\ (pre.handle = None /\ handle # None) =>
          \/ lastOp = "reopen_for_commands" /\ lastResult.ok
          \/ lastOp = "connect" /\ lastResult.ok /\ ~is_connected(pre.state)

\* send_command was refused on an initialized manager after the hand-off
C14_Witness ==
    /\ lastOp = "send_command"
    /\ handed_off
    /\ state = "Initialized"
    /\ lastResult = Err("NotConnected")

\* C15: a polling thread whose read reported "no device" does not read again.
C15_NoDeviceStopsLoop ==
    lastRead.outcome = "no_device" => ppc[lastRead.thread] # "read"

\* C16: a polling thread releases its interface exactly once, when it ends;
\* and whenever the flag is clear while a thread is running, the thread ends
\* unless the flag is set again.
C16_PollingStops ==
    \A t \in Pollers :
        /\ [](released[t] = IF ppc[t] = "done" THEN 1 ELSE 0)
        /\ (t \in Polling /\ ~POLLING_ACTIVE) ~> (ppc[t] = "done" \/ POLLING_ACTIVE)

\* a polling thread has ended after reading at least once
C16_Witness ==
    \E t \in Pollers : ppc[t] = "done" /\ released[t] = 1 /\ lastRead.thread = t

\* C17: parse_ack_packet gives None for a buffer shorter than 11 bytes, for
\* one not starting with "ACK", for one without "OK" at offsets 5 and 6 and
\* for event id 0; for any other buffer it gives the bytes at offsets 9 and 10.
C17_ParseAck ==
    (cin.fn = "parse_ack_packet" /\ cout.computed) =>
        LET b == cin.buf
        IN  IF \/ Len(b) < 11
               \/ b[1] # 65 \/ b[2] # 67 \/ b[3] # 75
               \/ b[6] # 79 \/ b[7] # 75
               \/ b[10] = 0
            THEN ~cout.raw.some
            ELSE cout.raw = [some |-> TRUE, event_id |-> b[10], state |-> b[11]]

\* a buffer longer than 11 bytes was parsed into an event
C17_Witness ==
    /\ cin.fn = "parse_ack_packet"
    /\ cout.computed
    /\ Len(cin.buf) > 11
    /\ cout.raw.some
    /\ cout.raw.event_id = 255

\* the table of C18: the event of an id apart from the press/release choice
\* (written here as Press), None for an id outside the table
TableEvent(id) ==
    CASE id \in 1..6 -> Button(id - 1, "Lcd", "Press")
      [] id = 37  -> Button(0, "Physical", "Press")
      [] id = 48  -> Button(1, "Physical", "Press")
      [] id = 49  -> Button(2, "Physical", "Press")
      [] id = 80  -> Encoder("Main", "RotateCCW")
      [] id = 81  -> Encoder("Main", "RotateCW")
      [] id = 144 -> Encoder("Side1", "RotateCCW")
      [] id = 145 -> Encoder("Side1", "RotateCW")
      [] id = 96  -> Encoder("Side2", "RotateCCW")
      [] id = 97  -> Encoder("Side2", "RotateCW")
      [] id = 53  -> Encoder("Main", "Press")
      [] id = 51  -> Encoder("Side1", "Press")
      [] id = 52  -> Encoder("Side2", "Press")
      [] OTHER -> NoEvent
Rotations == {80, 81, 144, 145, 96, 97}

\* C18: RawEvent::parse follows the table: rotation ids give their event
\* whatever the state byte; button and push ids give Press for state 1 and
\* Release for state 0; ids outside the table give None.
C18_ParseTable ==
    (cin.fn = "RawEvent_parse" /\ cout.computed) =>
        LET want == TableEvent(cin.event_id)
            got == cout.event
        IN  IF ~want.some \/ cin.event_id \in Rotations
            THEN got = want
            ELSE /\ [got EXCEPT !.event_type = "Press"] = want
                 /\ got.event_type \in {"Press", "Release"}
                 /\ cin.state = 1 => got.event_type = "Press"
                 /\ cin.state = 0 => got.event_type = "Release"

\* the third physical button was released
C18_Witness ==
    /\ cin.fn = "RawEvent_parse"
    /\ cin.event_id = 49 /\ cin.state = 0
    /\ cout.computed
    /\ cout.event = Button(2, "Physical", "Release")

\* C19: RawEvent::parse never yields LongPress, and the notification built
\* from its event never has the type "longPress".
C19_NoLongPress ==
    (cin.fn = "RawEvent_parse" /\ cout.computed) =>
        /\ cout.event.some =>
              cout.event.event_type \in {"Press", "Release", "RotateCW", "RotateCCW"}
        /\ cout.note.type # "longPress"

\* an encoder push with a state byte that is neither 0 nor 1 was decoded
C19_Witness ==
    /\ cin.fn = "RawEvent_parse"
    /\ cin.event_id = 53 /\ cin.state = 2
    /\ cout.computed
    /\ cout.event.some
    /\ cout.note.name = "device:encoderPress"

\* C20: build_brightness_packet(level) carries min(level, 100) at offset 10:
\* never more than 100, and 0 for level 0.
C20_BrightnessClamped ==
    (cin.fn = "build_brightness_packet" /\ cout.computed) =>
        /\ cout.packet.mnemonic = "LIG"
        /\ cout.packet.param = (IF cin.level <= 100 THEN cin.level ELSE 100)
        /\ cout.packet.param <= 100
        /\ cin.level = 0 => cout.packet.param = 0

\* the packet for level 150 was built
C20_Witness ==
    /\ cin.fn = "build_brightness_packet"
    /\ cin.level = 150
    /\ cout.computed
    /\ cout.packet.param = 100

(***************************************************************************)
(* Claims about the command packets and the image upload                   *)
(***************************************************************************)
\* the mnemonic each builder is to put at offset 5 ("." of CLE.DC and CLB.DC
\* is a zero byte), and the offsets of its parameter bytes
MnemonicOf(builder) ==
    CASE builder = "build_display_init_packet" -> <<68, 73, 83>>
      [] builder = "build_brightness_packet" -> <<76, 73, 71>>
      [] builder = "build_quick_command_packet" -> <<81, 85, 67, 77, 68>>
      [] builder = "build_connect_packet" -> <<67, 79, 78, 78, 69, 67, 84>>
      [] builder = "build_stp_packet" -> <<83, 84, 80>>
      [] builder = "build_clear_screens_packet" -> <<67, 76, 69>>
      [] builder = "build_clear_lcd_packet" -> <<67, 76, 69, 0, 68, 67>>
      [] builder = "build_clear_buttons_packet" -> <<67, 76, 66, 0, 68, 67>>
      [] builder = "build_halt_packet" -> <<72, 65, 72>>
      [] builder = "build_image_bat_packet" -> <<66, 65, 84>>
ParamOffsetsOf(builder) ==
    CASE builder = "build_brightness_packet" -> {10}
      [] builder = "build_quick_command_packet" -> 10..15
      [] builder = "build_image_bat_packet" -> 10..12
      [] OTHER -> {}
CommandPacketShape(bytes, builder) ==
    LET m == MnemonicOf(builder)
    IN  /\ Len(bytes) = 1024
        /\ SubSeq(bytes, 1, 3) = <<67, 82, 84>>
        /\ bytes[4] = 0 /\ bytes[5] = 0
        /\ SubSeq(bytes, 6, 5 + Len(m)) = m
        /\ \A k \in (5 + Len(m))..1023 : k \notin ParamOffsetsOf(builder) => bytes[k + 1] = 0

\* C21: every packet a builder produces (DIS, LIG, QUCMD, CONNECT, STP, CLE,
\* CLE.DC, CLB.DC, HAH, BAT) is 1024 bytes long, starts with "CRT" and two
\* zero bytes, carries its mnemonic at offset 5, and is zero in every byte
\* outside the header, the mnemonic and the parameter bytes.
C21_PacketShape ==
    /\ (cout.computed /\ cin.fn = "build_packet")
          => CommandPacketShape(cout.bytes, cin.builder)
    /\ (cout.computed /\ cin.fn = "build_image_bat_packet" /\ ~cout.panicked)
          => CommandPacketShape(cout.bytes, "build_image_bat_packet")
C21_Witness ==
    /\ cout.computed /\ cin.fn = "build_packet"
    /\ cin.builder = "build_clear_lcd_packet"
    /\ SubSeq(cout.bytes, 10, 11) = <<68, 67>>

\* C22: for every button_index in 0..5 and every payload_length,
\* build_image_bat_packet puts payload_length, as a big-endian 16-bit
\* value, at bytes 10 and 11, and button_index + 1 at byte 12.
C22_BatEncodesLength ==
    (cout.computed /\ cin.fn = "build_image_bat_packet" /\ cin.button_index \in 0..5)
        => /\ ~cout.panicked
           /\ cout.bytes[11] * 256 + cout.bytes[12] = cin.data_length
           /\ cout.bytes[13] = cin.button_index + 1

\* C23: a successful set_button_image of an n-byte payload writes one BAT
\* packet, then exactly ceil(n / 1024) data packets whose contents,
\* concatenated and cut to n bytes, are the payload (the last one padded
\* with zeros to 1024 bytes), then one STP packet, and nothing else.
C23_UploadSequence ==
    (cout.computed /\ cin.fn = "set_button_image" /\ cout.upload.result.ok)
        => LET n == Len(cin.jpeg_data)
               ws == cout.upload.writes
               k == (n + 1023) \div 1024
           IN  /\ Len(ws) = k + 2
               /\ \A i \in 1..Len(ws) : ws[i].ok /\ Len(ws[i].packet) = 1024
               /\ CommandPacketShape(ws[1].packet, "build_image_bat_packet")
               /\ CommandPacketShape(ws[k + 2].packet, "build_stp_packet")
               /\ \A j \in 1..(k * 1024) :
                     ws[2 + ((j - 1) \div 1024)].packet[((j - 1) % 1024) + 1]
                        = IF j <= n THEN cin.jpeg_data[j] ELSE 0
C23_Witness ==
    /\ cout.computed /\ cin.fn = "set_button_image" /\ cout.upload.result.ok
    /\ Len(cin.jpeg_data) = 1025
    /\ Len(cout.upload.writes) = 4

(***************************************************************************)
(* Claims about the event binder                                           *)
(***************************************************************************)
\* the configurations an event addresses in profile p, the index it
\* addresses them by, and the action a configuration holds for its trigger
ConfigsFor(p, event) == IF event.kind = "Button" THEN p.buttons ELSE p.encoders
ControlIndex(event) ==
    IF event.kind = "Button" THEN event.index
    ELSE CASE event.encoder_type = "Main" -> 0
           [] event.encoder_type = "Side1" -> 1
           [] event.encoder_type = "Side2" -> 2
TriggerAction(config, event) ==
    IF event.kind = "Button"
    THEN CASE event.event_type = "Press" -> config.action
           [] event.event_type = "LongPress" -> config.long_press_action
           [] OTHER -> None
    ELSE CASE event.event_type = "Press" -> config.press_action
           [] event.event_type = "LongPress" -> config.long_press_action
           [] event.event_type = "RotateCW" -> config.clockwise_action
           [] event.event_type = "RotateCCW" -> config.counter_clockwise_action
           [] OTHER -> None
Configured(p, event) ==
    {i \in 1..Len(ConfigsFor(p, event)) : ConfigsFor(p, event)[i].index = ControlIndex(event)}

\* C24: get_action_for_event returns None when no profile is bound, when
\* the bound profile has no configuration for the event's control index,
\* or when that configuration (the first with that index) has no action
\* for the event's trigger; otherwise it returns exactly that action.
C24_Resolution ==
    resolved.called =>
        IF ~profile.some \/ Configured(profile, resolved.event) = {}
        THEN resolved.action = None
        ELSE LET first == CHOOSE i \in Configured(profile, resolved.event) :
                              \A j \in Configured(profile, resolved.event) : i <= j
             IN  resolved.action =
                    TriggerAction(ConfigsFor(profile, resolved.event)[first], resolved.event)
C24_Witness ==
    /\ resolved.called /\ profile.some
    /\ resolved.event.kind = "Button" /\ resolved.event.event_type = "LongPress"
    /\ resolved.action = "Media"
    /\ Len(profile.buttons) = 2
    /\ profile.buttons[1].index = profile.buttons[2].index
    /\ profile.buttons[2].long_press_action = None

\* C25: a Release event, of a button or of an encoder, resolves to None for
\* every bound profile, whatever actions the profile configures.
C25_ReleaseResolvesToNone ==
    (resolved.called /\ profile.some /\ resolved.event.event_type = "Release")
        => resolved.action = None
C25_Witness ==
    /\ resolved.called /\ profile.some
    /\ resolved.event.kind = "Button" /\ resolved.event.event_type = "Release"
    /\ \E i \in Configured(profile, resolved.event) :
          profile.buttons[i].action # None /\ profile.buttons[i].long_press_action # None

\* C26: the binder holds no profile or one profile; after any sequence of
\* bind_profile and unbind calls an event is resolved against the profile
\* bound last, and to None if the last call was unbind or none was made.
C26_LastBindingWins ==
    /\ profile = bound.arg
    /\ bound.op # "bind_profile" => ~profile.some
    /\ resolved.called =>
          resolved.action = IF bound.op = "bind_profile"
                            THEN resolve(bound.arg, resolved.event) ELSE None
C26_Witness ==
    /\ resolved.called /\ bound.op = "bind_profile"
    /\ resolved.action # None

(***************************************************************************)
(* Claims about the polling loop                                           *)
(***************************************************************************)
\* the bytes of a read decode to an event
Decodes(data) ==
    /\ parse_ack_packet(data).some
    /\ RawEvent_parse(parse_ack_packet(data).event_id, parse_ack_packet(data).state).some
\* a read that is to be passed over: a timeout, no bytes, bytes that decode
\* to no event, or an error other than "no device"
PassedOver(read) ==
    \/ read.outcome \in {"timeout", "zero", "error"}
    \/ read.outcome = "data" /\ ~Decodes(read.data)

\* C30: a read timeout, a zero-length read, a packet that does not decode to
\* an event and a read error other than "no device" do not end the polling
\* loop and emit no notification; while POLLING_ACTIVE stays set the loop
\* goes on to its next read.
C30_LoopSurvivesBadReads ==
    [][\A t \in Pollers :
         /\ (ppc[t] = "read" /\ ppc'[t] # "read" /\ PassedOver(lastRead'))
               => /\ ppc'[t] = "check"
                  /\ lastRead'.note = NoNotification
                  /\ emitted' = emitted
         /\ (ppc[t] = "check" /\ ppc'[t] # "check" /\ POLLING_ACTIVE)
               => ppc'[t] = "read"]_vars
C30_Witness ==
    /\ POLLING_ACTIVE
    /\ lastRead.outcome = "data" /\ ~Decodes(lastRead.data)
    /\ lastRead.thread \in Pollers /\ ppc[lastRead.thread] = "read"
    /\ emitted # NoNotification

\* the bytes carry the ACK header and the OK signature, and the event ids
\* the classifier knows
Framed(data) ==
    /\ Len(data) >= 11
    /\ SubSeq(data, 1, 3) = <<65, 67, 75>>
    /\ SubSeq(data, 6, 7) = <<79, 75>>
RecognisedIds == (1..6) \cup {37, 48, 49, 80, 81, 53, 144, 145, 51, 96, 97, 52}

\* C31: the polling loop emits a notification only for a read that returned
\* a packet with ACK/OK framing and a non-zero event id the classifier
\* recognises; each such read yields exactly one notification, and the
\* notifications are emitted in the order the packets were read.
C31_EmitsDecodedInOrder ==
    /\ [](lastRead.note # NoNotification
            <=> /\ lastRead.outcome = "data"
                /\ Framed(lastRead.data)
                /\ lastRead.data[10] # 0
                /\ lastRead.data[10] \in RecognisedIds)
    /\ [][(pending' # pending \/ emitted' # emitted)
            => \/ /\ lastRead'.note # NoNotification
                  /\ pending' = Append(pending, [thread |-> lastRead'.thread,
                                                 note |-> lastRead'.note])
                  /\ emitted' = emitted
               \/ /\ pending # <<>>
                  /\ emitted' = Head(pending).note
                  /\ pending' = Tail(pending)]_vars

(***************************************************************************)
(* Claims about the device commands                                        *)
(***************************************************************************)
\* C36: whenever POLLING_ACTIVE is set, the manager's connection state is
\* Initialized and its device info is present, whatever the interleaving of
\* connect_device and disconnect_device.
C36_FlagImpliesInitialized ==
    POLLING_ACTIVE => (state = "Initialized" /\ device_info.present)

\* C37: at most one polling thread is alive at any time: a thread started
\* by an earlier connect_device has ended before a later connect_device
\* starts a new one.
C37_OnePollingThread == Cardinality(Polling) <= 1

(***************************************************************************)
(* Claims about the loops of the manager and the protocol                  *)
(***************************************************************************)
\* how many transfers of one kind a call made
Transfers(op) == Cardinality({i \in 1..Len(io) : io[i].op = op})
\* the longest run of transfers of one kind that ends at position i
RECURSIVE RunEndingAt(_, _)
RunEndingAt(op, i) == IF i = 0 \/ io[i].op # op THEN 0 ELSE 1 + RunEndingAt(op, i - 1)
CeilDiv(n, d) == (n + d - 1) \div d

C32_UploadWitness ==
    lastOp = "set_button_image" /\ lastResult.ok /\ Len(io) = 4

(***************************************************************************)
(* Claims about the fields of the manager                                  *)
(***************************************************************************)
\* C34: the manager holds an open handle only while its state is Connected
\* or Initialized.
C34_HandleOnlyWhenConnected == handle # None => state \in {"Connected", "Initialized"}

\* C35: the initialized flag is true exactly when the state is Initialized.
C35_FlagIsState == initialized <=> state = "Initialized"
\* a disconnect of an initialized manager: the flag and the state fall together
C35_Witness ==
    /\ lastOp = "disconnect" /\ pre.initialized /\ pre.state = "Initialized"
    /\ ~initialized /\ state = "Disconnected"

(***************************************************************************)
(* Claims about the size announced for an image                            *)
(***************************************************************************)
\* the bytes of a data packet that carry image data: those before the zero
\* padding (the images of the model hold no zero byte)
PayloadBytes(packet) == Cardinality({i \in 1..Len(packet) : packet[i] # 0})
RECURSIVE PayloadSent(_, _)
PayloadSent(ws, i) ==
    IF i >= Len(ws) THEN 0 ELSE PayloadBytes(ws[i].packet) + PayloadSent(ws, i + 1)

\* C38: for every payload set_button_image accepts, the size in the BAT
\* header equals the number of payload bytes sent in the data packets that
\* follow it.
C38_BatSizeIsPayloadSent ==
    (cout.computed /\ cin.fn = "set_button_image" /\ cout.upload.result.ok)
        => LET ws == cout.upload.writes
           IN  ws[1].packet[11] * 256 + ws[1].packet[12] = PayloadSent(ws, 2)

(***************************************************************************)
(* Claims about button types and workspaces in the event binder            *)
(***************************************************************************)
\* C39: against one bound profile, two button events with the same index and
\* the same trigger resolve to the same result, whether they come from an LCD
\* button or from a physical button.
C39_ButtonTypeIsIgnored ==
    [][(/\ resolved.called /\ resolved'.called /\ profile' = profile
        /\ resolved.event.kind = "Button" /\ resolved'.event.kind = "Button"
        /\ resolved'.event.index = resolved.event.index
        /\ resolved'.event.event_type = resolved.event.event_type)
            => resolved'.action = resolved.action]_vars
\* a physical button event that resolved to an action
C39_Witness ==
    /\ resolved.called /\ profile.some
    /\ resolved.event.kind = "Button" /\ resolved.event.button_type = "Physical"
    /\ resolved.action # None

\* the profile as its active workspace configures it
WorkspaceView(p) ==
    [p EXCEPT !.buttons = active_workspace(p).buttons,
              !.encoders = active_workspace(p).encoders]
\* migrate_legacy_config has moved the profile's configurations into its workspace
Migrated(p) ==
    /\ p.some /\ p.buttons = <<>> /\ p.encoders = <<>>
    /\ active_workspace(p) # DefaultWorkspace

\* C40: the binder resolves events against the active workspace of the bound
\* profile: once migrate_legacy_config has moved the buttons and encoders
\* of a profile into its workspace, a Press or rotation event resolves to the
\* action that workspace configures for it.
C40_ResolvesMigratedProfile ==
    (/\ resolved.called /\ Migrated(profile)
     /\ resolved.event.event_type \in {"Press", "RotateCW", "RotateCCW"})
        => resolved.action = resolve(WorkspaceView(profile), resolved.event)
====
